---- MODULE Spec2Model ----
(***************************************************************************)
(* Live audio/video session orchestrator (hooks/useLiveSession.ts), the    *)
(* third-party TTS client (CartesiaClient) and the log feed (App.handleLog)*)
(* as state machines.                                                      *)
(*                                                                         *)
(* Time is counted in units of 50 ms, gains in hundredths:                 *)
(*   0.05 s lookahead = 1, 600 ms hold = 12, 100 ms meter period = 2,      *)
(*   50 ms flush cooldown = 1; gain 0.05 = 5, 0.5 = 50, 1.0 = 100.         *)
(* One clock `now` stands for the wall clock of the timers and for         *)
(* ctx.currentTime of the output context.  Timers, buffer completions and  *)
(* React re-renders are handled at the first observed instant at which     *)
(* they are due (Tick is disabled while one is due); within one instant    *)
(* every order of the due events is explored.  Spec and SpecInterrupt      *)
(* observe every 50 ms instant of a short horizon; SpecDuck observes the   *)
(* instants of the 100 ms volume monitor over a horizon longer than the    *)
(* hold.                                                                   *)
(*                                                                         *)
(* The entries of the log feed are identified by their append numbers.     *)
(* SpecLog and SpecTools follow the feed itself; in the other              *)
(* specifications an onLog call is the re-render it causes.                *)
(***************************************************************************)
EXTENDS Integers, Sequences, FiniteSets, TLC

\* ---- program constants ------------------------------------------------
LOOKAHEAD == 1
HOLD_TIME == 12
VOLUME_PERIOD == 2
FLUSH_COOLDOWN == 1
RESTART_DELAY == 20
RECONNECT_DELAY == 10
GAIN_DUCKED == 5
GAIN_NORMAL == 100
GAIN_DEFAULT == 50
GAIN_MUTED == 0
LOG_CAP == 100
\* a null timer handle / a null node reference
NoTimer == -1
NoNode == -1

\* ---- bounds of the model ----------------------------------------------
MaxClock == 15
MaxPlayClock == 4
MaxBuffers == 2
MaxCtx == 3
MaxAppends == 103
MaxCalls == 2
MaxEvents == 3
MaxSessionEvents == 5
MaxRestartEvents == 7
MaxRestartClock == 36
MaxPokes == 2
\* config.commentaryInterval on the model's clock (0.2 s), scaled with the speech buffers
CommentaryPeriod == 4
MaxText == 3
MaxDeviceCalls == 2
\* durations of decoded speech buffers (0.1 s and 0.5 s)
Durations == {2, 10}
\* the registered tool catalog (App.tools) and the names a tool call may carry
ToolNames == {"get_time", "change_background", "start_screenshare", "change_voice"}
CallNames == {"get_time", "change_background", "change_voice", "open_door"}
\* the pieces a transcript is made of: a word, white space, sentiment tags the
\* pattern /\[S:(POSITIVE|NEGATIVE|SURPRISED|NEUTRAL|EXCITED)\]/i matches, a tag
\* with an unknown name and a cut-off tag
KnownTags == {"[S:POSITIVE]", "[s:excited]"}
Tokens == KnownTags \cup {"hi", " ", "[S:ANGRY]", "[S:"}

VARIABLES
    now,                \* wall clock = outputContext.currentTime
    session,            \* remote session: "none", "connecting", "open", "closed"
    isConnected,        \* React state isConnected
    useCartesia,        \* config.useCartesia captured by connect()'s callbacks
    cartesiaClient,     \* cartesiaClientRef.current and the client's fields
    ctxCounter,         \* number of context ids generated so far
    flushTimers,        \* deadlines of the client's pending 50 ms timers
    ttsInFlight,        \* context ids under which text was sent to the TTS socket
    audioContext,       \* audioContextRef.current # null
    outputContext,      \* outputContextRef.current # null
    processor,          \* processorRef.current # null (microphone chain built)
    volumeInterval,     \* next due time of the volume monitor interval, or NoTimer
    videoStream,        \* videoStreamRef.current: "none", "camera" or "screen" (with an audio track)
    isScreenAudioShared,\* React state isScreenAudioShared
    nextStartTime,      \* nextStartTimeRef.current
    bufs,               \* every AudioBufferSourceNode started so far, in order
    activeAudioNodes,   \* activeAudioNodesRef.current (indices into bufs)
    activeAiSources,    \* activeAiSourcesRef.current
    resetSinceSched,    \* the cursor was reset (interruption, teardown) since the last start()
    duckingTimeout,     \* due time of the pending unduck timer, or NoTimer
    isDucking,          \* isDuckingRef.current
    isAiSpeaking,       \* React state isAiSpeaking
    screenFadeGain,     \* target of screenFadeGainNodeRef.current.gain, or NoNode
    renderPending,      \* a React state change awaits its render and effects
    enableDucking,      \* config.enableDucking (React state of App)
    configRef,          \* configRef.current.enableDucking
    lastNonZero,        \* last instant at which activeAiSources was above 0
    events,             \* number of user and server events so far
    eventCap,           \* number of user and server events the run goes up to
    interruptedRun,     \* interrupted messages handled in succession just now (0, 1, 2 = two or more)
    disconnectedRun,    \* disconnect() calls in succession just now (0, 1, 2 = two or more)
    tornDown,           \* disconnect() was called and connect() has not been called since
    logs,               \* App's logs state (entries are their append numbers)
    appended,           \* number of handleLog calls so far
    functionCalls,      \* msg.toolCall.functionCalls of the message being handled
    functionResponses,  \* per call: "pending", or the settled response
    executed,           \* indices of the calls whose executor was run
    responded,          \* sendToolResponse was called for the message being handled
    sentBatches,        \* the batches handed to session.sendToolResponse
    modelTranscription, \* modelTranscriptionRef.current, as a sequence of tokens
    userTranscription,  \* userTranscriptionRef.current, as a sequence of tokens
    sessionRef,         \* sessionRef.current: "null", "latest" (session of the last connect()), "orphan"
    sessionPromiseRef,  \* sessionPromiseRef.current # null
    orphanPending,      \* sessions of earlier connect() calls that are still connecting
    orphanOpen,         \* sessions of earlier connect() calls that are open
    micPending,         \* getUserMedia calls of onopen that have not resolved
    mediaStream,        \* mediaStreamRef.current # null (tracks live)
    videoPending,       \* capture requests of setVideoSource that have not resolved, in order
    videoInterval,      \* videoIntervalRef.current # null (frame timer running)
    commentaryTimer,    \* next due time of the auto-commentary interval, or NoTimer
    isAiSpeakingRef,    \* isAiSpeakingRef.current
    pokes,              \* number of [AUTO-POKE] texts sent to the session
    autoPoke,           \* the run follows the auto-commentary interval
    holdTimers,         \* due times of the hold timers armed by updateDucking that have neither
                        \* fired nor been cleared
    duckEntry,          \* the ducking entry the latest updateDucking call or hold-timer callback
                        \* passed to onLog, or NoEntry
    micInput,           \* the microphone input: sources = live source nodes connected to the
                        \* mute-gain, refLive = inputSourceRef.current is one of them,
                        \* pending = getUserMedia calls of changeAudioDevice not yet settled
    outputMute,         \* output mute: muted = isOutputMuted, gain = outputGainRef's gain in
                        \* hundredths (NoNode before the node exists), captured = the
                        \* isOutputMuted ("muted", "unmuted") a connect() call that awaits
                        \* the TTS socket closed over, "none" when no call awaits
    restartTimers,      \* the timers of App's auto-restart effect that have not fired yet
    strayCaptures,      \* acquired capture streams with live tracks that videoStreamRef no
                        \* longer holds
    reported            \* what the latest connect(), session callback or disconnect() reported:
                        \* its system log entries, alerts and unhandled rejections, in order

sessVars == <<session, isConnected, useCartesia>>
ttsVars == <<cartesiaClient, ctxCounter, flushTimers, ttsInFlight>>
graphVars == <<audioContext, outputContext, processor, volumeInterval, videoStream, isScreenAudioShared>>
playVars == <<nextStartTime, bufs, activeAudioNodes, activeAiSources, resetSinceSched>>
duckVars == <<duckingTimeout, isDucking, isAiSpeaking, screenFadeGain, renderPending>>
cfgVars == <<enableDucking, configRef>>
histVars == <<lastNonZero, events, eventCap, interruptedRun, disconnectedRun, tornDown>>
logVars == <<logs, appended>>
toolVars == <<functionCalls, functionResponses, executed, responded, sentBatches>>
turnVars == <<modelTranscription, userTranscription>>
handleVars == <<sessionRef, sessionPromiseRef, orphanPending, orphanOpen>>
acqVars == <<micPending, mediaStream, videoPending, videoInterval>>
pokeVars == <<commentaryTimer, isAiSpeakingRef, pokes, autoPoke>>
reportVars == <<reported>>
timerVars == <<holdTimers>>
duckLogVars == <<duckEntry>>
micVars == <<micInput>>
muteVars == <<outputMute>>
captureVars == <<strayCaptures>>
restartVars == <<restartTimers>>
vars == <<now, sessVars, ttsVars, graphVars, playVars, duckVars, cfgVars, histVars, logVars, toolVars,
          turnVars, handleVars, acqVars, pokeVars, reportVars, timerVars, duckLogVars, micVars, muteVars, captureVars,
          restartVars>>

Max(a, b) == IF a >= b THEN a ELSE b
Min(a, b) == IF a <= b THEN a ELSE b

\* ---- CartesiaClient ---------------------------------------------------
NoClient == [present |-> FALSE, ws |-> "null", contextId |-> 0, isFlushing |-> FALSE]

\* the system log entries and the alert of connect(), the session callbacks and disconnect()
AlertNoKey == "API Key not found in environment."
CartesiaConnected == "Connected to Cartesia TTS (Sonic)"
CartesiaFailed == "Failed to connect to Cartesia."
Connecting == "Connecting to Gemini Live..."
SessionConnected == "Session Connected."
MicError == "Mic Error"
SessionClosed == "Session Closed"
SessionError == "Error"
ConnectionFailed == "Connection Failed"
Disconnected == "Disconnected"
DuckingActive == "Audio Ducking Active (Screen Lowered)"
DuckingInactive == "Audio Ducking Inactive"
NoEntry == "none"
MicSwitched == "Switched mic to"
MicSwitchError == "Error switching mic"
\* a rejected promise of an async callback that nothing awaits or catches
UnhandledRejection == "unhandledrejection"

\* connect(): the entry of the TTS socket, if a client is created, then 'Connecting...'
connectReports(client, wsOk) ==
    (IF client THEN <<IF wsOk THEN CartesiaConnected ELSE CartesiaFailed>> ELSE <<>>)
        \o <<Connecting>>

\* new CartesiaClient(...) followed by connect(): the socket opens or fails
NewClient(wsOk) ==
    [present |-> TRUE, ws |-> IF wsOk THEN "open" ELSE "failed",
     contextId |-> ctxCounter + 1, isFlushing |-> FALSE]

\* CartesiaClient.send without the test of the socket's readyState
send_anyState(c, inflight) ==
    IF ~c.present THEN inflight
    ELSE IF c.isFlushing THEN inflight
    ELSE inflight \cup {c.contextId}

\* CartesiaClient.send: the set of contexts with text in flight after send(text)
send(c, inflight) ==
    IF ~c.present \/ c.ws # "open" THEN inflight
    ELSE IF c.isFlushing THEN inflight
    ELSE inflight \cup {c.contextId}

\* CartesiaClient.flush: the client's fields after flush()
flush(c) ==
    IF ~c.present \/ c.ws # "open" THEN c
    ELSE [c EXCEPT !.isFlushing = TRUE, !.contextId = ctxCounter + 1]

\* flush() arms a 50 ms timer only when the socket is open
flushArms(c) == c.present /\ c.ws = "open"

\* ---- Ducking controller -----------------------------------------------
\* the ducking state on which updateDucking works
Duck ==
    [timeout |-> duckingTimeout, isDucking |-> isDucking, isAiSpeaking |-> isAiSpeaking,
     gain |-> screenFadeGain, render |-> renderPending, timers |-> holdTimers,
     shared |-> isScreenAudioShared, entry |-> NoEntry]

SetDuck(d) ==
    /\ duckingTimeout' = d.timeout
    /\ isDucking' = d.isDucking
    /\ isAiSpeaking' = d.isAiSpeaking
    /\ screenFadeGain' = d.gain
    /\ renderPending' = d.render
    /\ holdTimers' = d.timers
    /\ duckEntry' = d.entry

\* the entry applyDucking logs when isDuckingRef changes: only with ducking enabled and
\* isScreenAudioShared set (the value the callback closed over; the current one is taken)
duckingEntry_always(d, shouldDuck, enabled) ==
    IF shouldDuck THEN DuckingActive ELSE DuckingInactive

duckingEntry(d, shouldDuck, enabled) ==
    IF shouldDuck # d.isDucking /\ enabled /\ d.shared
    THEN (IF shouldDuck THEN DuckingActive ELSE DuckingInactive)
    ELSE NoEntry

\* applyDucking(shouldDuck) with enabled = configRef.current.enableDucking;
\* setIsAiSpeaking with a new value, and onLog, schedule a render
applyDucking(d, shouldDuck, enabled) ==
    IF d.gain = NoNode \/ ~audioContext THEN d
    ELSE [d EXCEPT
            !.gain = IF shouldDuck /\ enabled THEN GAIN_DUCKED ELSE GAIN_NORMAL,
            !.isAiSpeaking = shouldDuck,
            !.isDucking = shouldDuck,
            !.entry = duckingEntry(d, shouldDuck, enabled),
            !.render = d.render \/ d.isAiSpeaking # shouldDuck
                                \/ duckingEntry(d, shouldDuck, enabled) # NoEntry]

\* variant: the pending timer is left running
clearPending_kept(d) == d

\* clearTimeout(duckingTimeoutRef.current) at the head of updateDucking
clearPending(d) == [d EXCEPT !.timeout = NoTimer, !.timers = d.timers \ {d.timeout}]

\* variant: updateDucking without the clearTimeout at its head
updateDucking_noClear(d, count, enabled) ==
    IF count > 0
    THEN applyDucking(d, TRUE, enabled)
    ELSE [d EXCEPT !.timeout = now + HOLD_TIME, !.timers = d.timers \cup {now + HOLD_TIME}]

\* updateDucking() run at time `now` with activeAiSourcesRef.current = count
updateDucking(d, count, enabled) ==
    LET c == clearPending(d)
    IN  IF count > 0
        THEN applyDucking(c, TRUE, enabled)
        ELSE [c EXCEPT !.timeout = now + HOLD_TIME, !.timers = c.timers \cup {now + HOLD_TIME}]

\* ---- Output mute ---------------------------------------------------------
\* the gain value written for a muted flag
gainFor(muted) == IF muted THEN GAIN_MUTED ELSE GAIN_NORMAL

\* initAudioContexts: the output gain node is created once, with the default gain
initOutputGain(m) == IF m.gain = NoNode THEN [m EXCEPT !.gain = GAIN_NORMAL] ELSE m

\* connect(): 'Sync output gain' with the isOutputMuted the call closed over
syncOutputGain(m) ==
    [initOutputGain(m) EXCEPT
        !.gain = gainFor(IF m.captured = "none" THEN m.muted ELSE m.captured = "muted"),
        !.captured = "none"]

\* toggleOutputMute(): the flag is flipped, the gain node (if any) follows the new flag
toggleOutputMute(m) ==
    [m EXCEPT !.muted = ~m.muted,
              !.gain = IF m.gain = NoNode THEN NoNode ELSE gainFor(~m.muted)]

\* ---- Playback scheduler -----------------------------------------------
\* variant: the cursor is used as it is, even when it lies in the past
nativeStart_atCursor(cursor, currentTime) == cursor

\* start time chosen by the native-audio branch of onmessage
nativeStart(cursor, currentTime) ==
    IF cursor < currentTime THEN currentTime + LOOKAHEAD ELSE cursor

\* start time chosen by handleCartesiaAudio
cartesiaStart(cursor, currentTime) ==
    IF cursor < currentTime THEN currentTime ELSE cursor

\* a started AudioBufferSourceNode: stopped = stop() was called on it,
\* ended = its onended callback has run
NewBuffer(path, start, dur) ==
    [path |-> path, start |-> start, dur |-> dur, stopped |-> FALSE, ended |-> FALSE]

\* the node is still audible or still scheduled to play
Sounding(b, t) == ~b.stopped /\ t < b.start + b.dur

\* source.onended is due: the buffer played to its end or stop() was called
EndPending(i) ==
    /\ ~bufs[i].ended
    /\ (bufs[i].stopped \/ now >= bufs[i].start + bufs[i].dur)

\* node.stop(); node.disconnect() for every node of the active set
StopActive(bs, active) ==
    [i \in DOMAIN bs |-> IF i \in active THEN [bs[i] EXCEPT !.stopped = TRUE] ELSE bs[i]]

\* the active set after the native path has started node i
trackNode(active, i) == active \cup {i}

\* variant: the count is decremented without the clamp
decrement_unclamped(count) == count - 1

\* the count after a completion callback
decrement(count) == Max(0, count - 1)

\* variant: the cursor is reset one lookahead past the clock
resetCursor_ahead(currentTime) == currentTime + LOOKAHEAD

\* the cursor after an interrupted message
resetCursor(currentTime) == currentTime

\* ---- log feed (App) ---------------------------------------------------
\* variant: the feed is cut to the cap but keeps its oldest entries
handleLog_keepOldest(prev, entry) ==
    LET next == Append(prev, entry)
    IN  IF Len(next) > LOG_CAP THEN SubSeq(next, 1, LOG_CAP) ELSE next

\* the updater handleLog passes to setLogs: next.slice(next.length - 100)
handleLog(prev, entry) ==
    LET next == Append(prev, entry)
    IN  IF Len(next) > LOG_CAP
        THEN SubSeq(next, (Len(next) - LOG_CAP) + 1, Len(next))
        ELSE next

\* ---- tool calls --------------------------------------------------------
\* the result of a call: not settled yet, the executor's output, or an error payload
Pending == "pending"
Output == "output"
ErrThrown == "error: e.message"
ErrNotFound == "error: Tool not found"
IsError(result) == result \in {ErrThrown, ErrNotFound}

\* variant: every name is taken to be in the catalog
find_any(name) == TRUE

\* tools.find(t => t.declaration.name === call.name) found a tool
find(name) == name \in ToolNames

\* variant: a throwing executor is not caught and rejects the call's promise
runTool_uncaught(call) == IF call.outcome = "throws" THEN "rejected" ELSE Output

\* try { result = await tool.execute(call.args) } catch (e) { result = { error: e.message } }
runTool(call) == IF call.outcome = "throws" THEN ErrThrown ELSE Output

\* the function calls a tool-call message may carry: a name and what the
\* executor does with the arguments (returns, or throws an Error)
CallSeqs ==
    UNION { [1..n -> [name : CallNames, outcome : {"returns", "throws"}]] : n \in 1..MaxCalls }

\* ---- turn transcripts ---------------------------------------------------
RECURSIVE trimStart(_)
\* the text without its leading white space
trimStart(t) == IF t # <<>> /\ Head(t) = " " THEN trimStart(Tail(t)) ELSE t

RECURSIVE trimEnd(_)
\* the text without its trailing white space
trimEnd(t) == IF t # <<>> /\ t[Len(t)] = " " THEN trimEnd(SubSeq(t, 1, Len(t) - 1)) ELSE t

\* String.prototype.trim
trim(t) == trimStart(trimEnd(t))

\* modelText.match(/\[S:(...)\]/i): the place of the first tag the pattern
\* matches, 0 when there is none
match(t) ==
    LET S == {i \in DOMAIN t : t[i] \in KnownTags}
    IN  IF S = {} THEN 0 ELSE CHOOSE i \in S : \A j \in S : i <= j

\* sentimentMatch[1].toLowerCase()
toLowerCase(tag) == IF tag = "[S:POSITIVE]" THEN "positive" ELSE "excited"

\* modelText.replace(pattern, ''): the first match is cut out
replace(t) ==
    LET m == match(t)
    IN  IF m = 0 THEN t ELSE SubSeq(t, 1, m - 1) \o SubSeq(t, m + 1, Len(t))

\* the model entry turnComplete builds from the accumulated model text
modelEntry(acc) ==
    LET modelText == trim(acc)
        m == match(modelText)
    IN  [type |-> "model",
         message |-> IF m > 0 THEN trim(replace(modelText)) ELSE modelText,
         sentiment |-> IF m > 0 THEN toLowerCase(modelText[m]) ELSE "undefined"]

\* the texts a message may carry
Texts == UNION { [1..n -> Tokens] : n \in 1..MaxText }

\* ---- history ----------------------------------------------------------
Hist ==
    /\ lastNonZero' = IF activeAiSources > 0 \/ activeAiSources' > 0 THEN now' ELSE lastNonZero
    /\ eventCap' = eventCap

\* an event of the user or of the remote side (bounded in number)
External ==
    /\ events < eventCap /\ events' = events + 1 /\ Hist /\ interruptedRun' = 0
    /\ disconnectedRun' = 0 /\ tornDown' = tornDown
\* an interrupted message of the remote side
Interruption ==
    /\ events < eventCap /\ events' = events + 1 /\ Hist
    /\ interruptedRun' = Min(interruptedRun + 1, 2)
    /\ disconnectedRun' = 0 /\ tornDown' = tornDown
\* a call of connect()
Request ==
    /\ events < eventCap /\ events' = events + 1 /\ Hist /\ interruptedRun' = 0
    /\ disconnectedRun' = 0 /\ tornDown' = FALSE
\* a call of disconnect()
Teardown ==
    /\ events < eventCap /\ events' = events + 1 /\ Hist /\ interruptedRun' = 0
    /\ disconnectedRun' = Min(disconnectedRun + 1, 2) /\ tornDown' = TRUE
\* a callback of the platform: a timer, a completion, a render, the clock
Internal ==
    /\ events' = events /\ Hist /\ interruptedRun' = 0
    /\ disconnectedRun' = 0 /\ tornDown' = tornDown

\* ---- initial state: the hook is mounted, its effects have run once -----
InitCore ==
    /\ now = 0
    /\ session = "none" /\ isConnected = FALSE /\ useCartesia = FALSE
    /\ cartesiaClient = NoClient /\ ctxCounter = 0 /\ flushTimers = {} /\ ttsInFlight = {}
    /\ audioContext = FALSE /\ outputContext = FALSE /\ processor = FALSE
    /\ volumeInterval = NoTimer /\ videoStream = "none" /\ isScreenAudioShared = FALSE
    /\ nextStartTime = 0 /\ bufs = <<>> /\ activeAudioNodes = {} /\ activeAiSources = 0
    /\ resetSinceSched = FALSE
    /\ duckingTimeout = HOLD_TIME /\ holdTimers = {HOLD_TIME} /\ duckEntry = NoEntry
    /\ micInput = [sources |-> 0, refLive |-> FALSE, pending |-> 0]
    /\ outputMute = [muted |-> FALSE, gain |-> NoNode, captured |-> "none"]
    /\ strayCaptures = 0
    /\ restartTimers = <<>>
    /\ isDucking = FALSE /\ isAiSpeaking = FALSE /\ screenFadeGain = NoNode
    /\ renderPending = FALSE
    /\ enableDucking = TRUE /\ configRef = TRUE
    /\ lastNonZero = 0 /\ events = 0 /\ interruptedRun = 0
    /\ eventCap \in {MaxEvents, MaxSessionEvents, MaxRestartEvents}
    /\ disconnectedRun = 0 /\ tornDown = FALSE
    /\ logs = <<>> /\ appended = 0
    /\ functionCalls = <<>> /\ functionResponses = <<>> /\ executed = {}
    /\ responded = FALSE /\ sentBatches = <<>>
    /\ modelTranscription = <<>> /\ userTranscription = <<>>
    /\ sessionRef = "null" /\ sessionPromiseRef = FALSE /\ orphanPending = 0 /\ orphanOpen = 0
    /\ micPending = 0 /\ mediaStream = FALSE /\ videoPending = <<>> /\ videoInterval = FALSE
    /\ commentaryTimer = NoTimer /\ isAiSpeakingRef = FALSE /\ pokes = 0
    /\ autoPoke \in BOOLEAN
    /\ reported = <<>>

Init == InitCore /\ eventCap = MaxEvents /\ autoPoke = FALSE

\* the same with room for longer runs of user and server events
InitSession == InitCore /\ eventCap = MaxSessionEvents /\ autoPoke = FALSE

\* the same with room for two restarts
InitRestart == InitCore /\ eventCap = MaxRestartEvents /\ autoPoke = FALSE

\* the same with the auto-commentary interval followed
InitCommentary == InitCore /\ eventCap = MaxEvents /\ autoPoke = TRUE

\* ---- session lifecycle --------------------------------------------------
\* connect(): audio contexts, optional TTS client, remote session requested
connect(uc, creds, wsOk) ==
    /\ (uc /\ creds) => ctxCounter < MaxCtx
    /\ audioContext' = TRUE /\ outputContext' = TRUE
    /\ IF uc /\ creds
       THEN /\ cartesiaClient' = NewClient(wsOk)
            /\ ctxCounter' = ctxCounter + 1
            /\ flushTimers' = {} /\ ttsInFlight' = {}
       ELSE UNCHANGED ttsVars
    /\ useCartesia' = uc
    \* a session of an earlier call is neither awaited nor closed: it lives on
    /\ orphanPending' = orphanPending + (IF session = "connecting" THEN 1 ELSE 0)
    /\ orphanOpen' = orphanOpen + (IF session = "open" THEN 1 ELSE 0)
    /\ sessionRef' = CASE sessionRef = "latest" /\ session = "open" -> "orphan"
                        [] sessionRef = "latest" -> "stale"
                        [] OTHER -> sessionRef
    /\ session' = "connecting"
    /\ sessionPromiseRef' = TRUE
    /\ renderPending' = TRUE
    /\ UNCHANGED <<now, isConnected, processor, volumeInterval, videoStream, isScreenAudioShared,
                   playVars, duckingTimeout, isDucking, isAiSpeaking,
                   screenFadeGain, cfgVars, logVars, toolVars, acqVars, pokeVars>>
    /\ reported' = connectReports(uc /\ creds, wsOk)
    /\ UNCHANGED <<holdTimers, duckEntry, micInput>>
    /\ modelTranscription' = <<>> /\ userTranscription' = <<>>
    /\ outputMute' = syncOutputGain(outputMute)
    /\ UNCHANGED strayCaptures
    /\ Request

\* connect() called by the user interface
Connect(uc, creds, wsOk) == connect(uc, creds, wsOk) /\ UNCHANGED restartTimers

\* connect() while no session of an earlier call is connecting or open
ConnectIdle(uc, creds, wsOk) ==
    /\ session \in {"none", "closed"}
    /\ Connect(uc, creds, wsOk)

\* connect() with the key test placed after the contexts and the transcript reset
ConnectNoKey_afterInit ==
    /\ audioContext' = TRUE /\ outputContext' = TRUE
    /\ modelTranscription' = <<>> /\ userTranscription' = <<>>
    /\ reported' = <<AlertNoKey>>
    /\ UNCHANGED <<holdTimers, duckEntry, micInput>>
    /\ UNCHANGED <<now, sessVars, ttsVars, processor, volumeInterval, videoStream,
                   isScreenAudioShared, playVars, duckVars, cfgVars, logVars, toolVars,
                   handleVars, acqVars, pokeVars>>
    /\ UNCHANGED <<outputMute, strayCaptures, restartTimers>>
    /\ Request

\* connect() while process.env.API_KEY is missing: the alert, then return
ConnectNoKey ==
    /\ reported' = <<AlertNoKey>>
    /\ UNCHANGED <<holdTimers, duckEntry, micInput>>
    /\ UNCHANGED <<now, sessVars, ttsVars, graphVars, playVars, duckVars, cfgVars, logVars,
                   toolVars, turnVars, handleVars, acqVars, pokeVars>>
    /\ UNCHANGED <<outputMute, strayCaptures, restartTimers>>
    /\ Request

\* ai.live.connect rejects: connect()'s catch logs the failure and clears the flag
ConnectFails ==
    /\ session = "connecting"
    /\ session' = "closed"
    /\ isConnected' = FALSE
    /\ renderPending' = TRUE
    /\ reported' = <<ConnectionFailed>>
    /\ UNCHANGED <<holdTimers, duckEntry, micInput>>
    /\ UNCHANGED <<now, useCartesia, ttsVars, graphVars, playVars,
                   duckingTimeout, isDucking, isAiSpeaking, screenFadeGain,
                   cfgVars, logVars, toolVars,
                   turnVars, handleVars, acqVars, pokeVars>>
    /\ UNCHANGED <<outputMute, strayCaptures, restartTimers>>
    /\ External

\* callbacks.onerror: the error is logged, nothing else
OnError ==
    /\ session \in {"connecting", "open"}
    /\ renderPending' = TRUE
    /\ reported' = <<SessionError>>
    /\ UNCHANGED <<holdTimers, duckEntry, micInput>>
    /\ UNCHANGED <<now, sessVars, ttsVars, graphVars, playVars,
                   duckingTimeout, isDucking, isAiSpeaking, screenFadeGain,
                   cfgVars, logVars, toolVars,
                   turnVars, handleVars, acqVars, pokeVars>>
    /\ UNCHANGED <<outputMute, strayCaptures, restartTimers>>
    /\ External

\* connect() with the TTS configured, up to its await of the TTS socket: transcripts
\* cleared, contexts and output gain node created, the client constructed
ConnectAwaitsTts ==
    /\ session \in {"none", "closed"}
    /\ outputMute.captured = "none"
    /\ audioContext' = TRUE /\ outputContext' = TRUE
    /\ outputMute' = [initOutputGain(outputMute) EXCEPT
                        !.captured = IF outputMute.muted THEN "muted" ELSE "unmuted"]
    /\ modelTranscription' = <<>> /\ userTranscription' = <<>>
    /\ UNCHANGED <<strayCaptures, restartTimers>>
    /\ UNCHANGED <<now, sessVars, ttsVars, processor, volumeInterval, videoStream,
                   isScreenAudioShared, playVars, duckVars, cfgVars, logVars, toolVars,
                   handleVars, acqVars, pokeVars, reported, holdTimers, duckEntry, micInput>>
    /\ External

\* the TTS socket settles and connect() runs on: log entry, output gain sync, session request
ConnectResumes(wsOk) ==
    /\ outputMute.captured # "none"
    /\ ConnectIdle(TRUE, TRUE, wsOk)

\* toggleOutputMute() from the mute button
ToggleOutputMute ==
    /\ outputMute' = toggleOutputMute(outputMute)
    /\ UNCHANGED <<strayCaptures, restartTimers>>
    /\ renderPending' = TRUE
    /\ UNCHANGED <<now, sessVars, ttsVars, graphVars, playVars, duckingTimeout, isDucking,
                   isAiSpeaking, screenFadeGain, cfgVars, logVars, toolVars, turnVars,
                   handleVars, acqVars, pokeVars, reported, holdTimers, duckEntry, micInput>>
    /\ External

\* onopen after its await: the stream is stored, the chains and the monitor are built
micChain(micOk) ==
    /\ mediaStream' = (micOk \/ mediaStream)
    /\ micInput' = IF micOk /\ audioContext
                   THEN [micInput EXCEPT !.sources = 1, !.refLive = TRUE]
                   ELSE micInput
    /\ IF micOk /\ audioContext
       THEN /\ processor' = TRUE
            /\ volumeInterval' = now + VOLUME_PERIOD
            /\ IF videoStream = "screen"
               THEN screenFadeGain' = GAIN_DEFAULT /\ isScreenAudioShared' = TRUE
               ELSE UNCHANGED <<screenFadeGain, isScreenAudioShared>>
       ELSE UNCHANGED <<processor, volumeInterval, screenFadeGain, isScreenAudioShared>>

\* the microphone is granted at once: onopen runs to its end
OnOpen(micOk) ==
    /\ session = "connecting"
    /\ session' = "open"
    /\ sessionRef' = "latest"
    /\ isConnected' = TRUE
    /\ renderPending' = TRUE
    /\ micChain(micOk)
    /\ UNCHANGED <<now, useCartesia, ttsVars, audioContext, outputContext, videoStream,
                   playVars, duckingTimeout, isDucking, isAiSpeaking,
                   cfgVars, logVars, toolVars,
                   turnVars, sessionPromiseRef, orphanPending, orphanOpen,
                   micPending, videoPending, videoInterval, pokeVars>>
    /\ reported' = <<SessionConnected>> \o (IF micOk THEN <<>> ELSE <<MicError>>)
    /\ UNCHANGED <<holdTimers, duckEntry>>
    /\ UNCHANGED <<outputMute, strayCaptures, restartTimers>>
    /\ Internal

\* onopen up to its await of getUserMedia; connect()'s own await stores the handle
OnOpenBegin ==
    /\ session = "connecting"
    /\ session' = "open"
    /\ sessionRef' = "latest"
    /\ isConnected' = TRUE
    /\ renderPending' = TRUE
    /\ micPending' = micPending + 1
    /\ UNCHANGED <<now, useCartesia, ttsVars, graphVars, playVars, duckingTimeout, isDucking,
                   isAiSpeaking, screenFadeGain, cfgVars, logVars, toolVars, turnVars,
                   sessionPromiseRef, orphanPending, orphanOpen,
                   mediaStream, videoPending, videoInterval, pokeVars>>
    /\ reported' = <<SessionConnected>>
    /\ UNCHANGED <<holdTimers, duckEntry, micInput>>
    /\ UNCHANGED <<outputMute, strayCaptures, restartTimers>>
    /\ Internal

\* the same for the session of an earlier connect() call
OrphanOpen ==
    /\ orphanPending > 0
    /\ orphanPending' = orphanPending - 1
    /\ orphanOpen' = orphanOpen + 1
    /\ sessionRef' = "orphan"
    /\ isConnected' = TRUE
    /\ renderPending' = TRUE
    /\ micPending' = micPending + 1
    /\ UNCHANGED <<now, session, useCartesia, ttsVars, graphVars, playVars, duckingTimeout,
                   isDucking, isAiSpeaking, screenFadeGain, cfgVars, logVars, toolVars, turnVars,
                   sessionPromiseRef, mediaStream, videoPending, videoInterval, pokeVars>>
    /\ reported' = <<SessionConnected>>
    /\ UNCHANGED <<holdTimers, duckEntry, micInput>>
    /\ UNCHANGED <<outputMute, strayCaptures, restartTimers>>
    /\ Internal

\* a pending getUserMedia of onopen settles
MicResolves(micOk) ==
    /\ micPending > 0
    /\ micPending' = micPending - 1
    /\ micChain(micOk)
    /\ renderPending' = TRUE
    /\ UNCHANGED <<now, sessVars, ttsVars, audioContext, outputContext, videoStream,
                   playVars, duckingTimeout, isDucking, isAiSpeaking,
                   cfgVars, logVars, toolVars, turnVars, handleVars, videoPending, videoInterval, pokeVars>>
    /\ reported' = IF micOk THEN reported ELSE <<MicError>>
    /\ UNCHANGED <<holdTimers, duckEntry>>
    /\ UNCHANGED <<outputMute, strayCaptures, restartTimers>>
    /\ Internal

\* callbacks.onclose
ServerClose ==
    /\ session \in {"connecting", "open"}
    /\ session' = "closed"
    /\ isConnected' = FALSE
    /\ renderPending' = TRUE
    /\ UNCHANGED <<now, useCartesia, ttsVars, graphVars, playVars,
                   duckingTimeout, isDucking, isAiSpeaking, screenFadeGain,
                   cfgVars, logVars, toolVars,
                   turnVars, handleVars, acqVars, pokeVars>>
    /\ reported' = <<SessionClosed>>
    /\ UNCHANGED <<holdTimers, duckEntry, micInput>>
    /\ UNCHANGED <<outputMute, strayCaptures, restartTimers>>
    /\ External

\* stopVideoProcessing with the frame timer left running
stopVideoProcessing_keepsTimer ==
    /\ videoInterval' = videoInterval
    /\ videoStream' = "none"
    /\ screenFadeGain' = NoNode
    /\ isScreenAudioShared' = FALSE

\* stopVideoProcessing(): frame timer, capture tracks, screen audio nodes
stopVideoProcessing ==
    /\ videoInterval' = FALSE
    /\ videoStream' = "none"
    /\ screenFadeGain' = NoNode
    /\ isScreenAudioShared' = FALSE

\* callbacks.onclose of the session of an earlier connect() call
OrphanClose ==
    /\ orphanOpen > 0
    /\ orphanOpen' = orphanOpen - 1
    /\ \/ sessionRef = "orphan" /\ sessionRef' = "stale"
       \/ (sessionRef # "orphan" \/ orphanOpen > 1) /\ sessionRef' = sessionRef
    /\ isConnected' = FALSE
    /\ renderPending' = TRUE
    /\ UNCHANGED <<now, session, useCartesia, ttsVars, graphVars, playVars,
                   duckingTimeout, isDucking, isAiSpeaking, screenFadeGain,
                   cfgVars, logVars, toolVars, turnVars,
                   sessionPromiseRef, orphanPending, acqVars, pokeVars>>
    /\ reported' = <<SessionClosed>>
    /\ UNCHANGED <<holdTimers, duckEntry, micInput>>
    /\ UNCHANGED <<outputMute, strayCaptures, restartTimers>>
    /\ External

\* disconnect(): stopAudioProcessing, stopVideoProcessing, TTS client, session handle
disconnect ==
    /\ volumeInterval' = NoTimer
    /\ bufs' = StopActive(bufs, activeAudioNodes)
    /\ activeAudioNodes' = {}
    /\ nextStartTime' = 0
    /\ resetSinceSched' = TRUE
    /\ processor' = FALSE
    /\ activeAiSources' = 0
    /\ isAiSpeaking' = FALSE
    /\ isDucking' = FALSE
    /\ stopVideoProcessing
    /\ cartesiaClient' = NoClient /\ flushTimers' = {} /\ ttsInFlight' = {}
    \* sessionRef.current is set once a session promise has resolved: close()
    \* reaches that session only
    /\ session' = CASE sessionRef = "latest" -> "none"
                     [] session \in {"connecting", "open"} -> session
                     [] OTHER -> "none"
    /\ orphanOpen' = orphanOpen - (IF sessionRef = "orphan" THEN 1 ELSE 0)
    /\ sessionRef' = "null"
    /\ sessionPromiseRef' = FALSE
    /\ mediaStream' = FALSE
    /\ micInput' = [micInput EXCEPT !.sources = 0, !.refLive = FALSE]
    /\ isConnected' = FALSE
    /\ renderPending' = TRUE
    /\ UNCHANGED <<now, useCartesia, ctxCounter, audioContext, outputContext,
                   duckingTimeout, cfgVars, logVars, toolVars,
                   turnVars, orphanPending, micPending, videoPending, pokeVars>>
    /\ reported' = <<Disconnected>>
    /\ UNCHANGED <<holdTimers, duckEntry>>
    /\ UNCHANGED <<outputMute, strayCaptures>>
    /\ Teardown

\* disconnect() called by the user interface
Disconnect == disconnect /\ UNCHANGED restartTimers

\* changeAudioDevice(deviceId) up to its await: in a connected session the old tracks
\* are stopped and the old source is disconnected, then getUserMedia is awaited
ChangeAudioDevice ==
    /\ isConnected /\ audioContext /\ processor
    /\ micInput.pending < MaxDeviceCalls
    /\ mediaStream' = FALSE
    /\ micInput' = [sources |-> IF micInput.refLive THEN micInput.sources - 1
                                ELSE micInput.sources,
                    refLive |-> FALSE,
                    pending |-> micInput.pending + 1]
    /\ renderPending' = TRUE
    /\ UNCHANGED <<now, sessVars, ttsVars, graphVars, playVars, duckingTimeout, isDucking,
                   isAiSpeaking, screenFadeGain, cfgVars, logVars, toolVars, turnVars,
                   handleVars, micPending, videoPending, videoInterval, pokeVars,
                   reported, holdTimers, duckEntry>>
    /\ UNCHANGED <<outputMute, strayCaptures, restartTimers>>
    /\ External

\* the getUserMedia of a changeAudioDevice call settles: the new stream is stored and its
\* source connected to the mute-gain if there is one; a failure is logged
DeviceResolves(ok) ==
    /\ micInput.pending > 0
    /\ IF ok
       THEN /\ mediaStream' = TRUE
            /\ micInput' = [sources |-> micInput.sources + (IF processor THEN 1 ELSE 0),
                            refLive |-> processor,
                            pending |-> micInput.pending - 1]
            /\ reported' = <<MicSwitched>>
       ELSE /\ mediaStream' = mediaStream
            /\ micInput' = [micInput EXCEPT !.pending = micInput.pending - 1]
            /\ reported' = <<MicSwitchError>>
    /\ renderPending' = TRUE
    /\ UNCHANGED <<now, sessVars, ttsVars, graphVars, playVars, duckingTimeout, isDucking,
                   isAiSpeaking, screenFadeGain, cfgVars, logVars, toolVars, turnVars,
                   handleVars, micPending, videoPending, videoInterval, pokeVars,
                   holdTimers, duckEntry>>
    /\ UNCHANGED <<outputMute, strayCaptures, restartTimers>>
    /\ Internal

\* setVideoSource(type): stopVideoProcessing, then the new capture and its audio chain
SetVideoSource(type) ==
    /\ type \in {"none", "camera", "screen"}
    /\ videoStream' = type
    /\ videoInterval' = (type # "none")
    /\ IF type = "screen" /\ isConnected /\ audioContext /\ processor
       THEN screenFadeGain' = GAIN_DEFAULT /\ isScreenAudioShared' = TRUE
       ELSE screenFadeGain' = NoNode /\ isScreenAudioShared' = FALSE
    /\ renderPending' = TRUE
    /\ UNCHANGED <<now, sessVars, ttsVars, audioContext, outputContext, processor, volumeInterval,
                   playVars, duckingTimeout, isDucking, isAiSpeaking,
                   cfgVars, logVars, toolVars,
                   turnVars, handleVars, micPending, mediaStream, videoPending, pokeVars, reported, holdTimers, duckEntry, micInput>>
    /\ UNCHANGED <<outputMute, strayCaptures, restartTimers>>
    /\ External

\* setVideoSource(type) up to its await of the capture: stopVideoProcessing first
VideoRequest(type) ==
    /\ type \in {"camera", "screen"}
    /\ stopVideoProcessing
    /\ videoPending' = Append(videoPending, [type |-> type, isConnected |-> isConnected])
    /\ renderPending' = TRUE
    /\ UNCHANGED <<now, sessVars, ttsVars, audioContext, outputContext, processor, volumeInterval,
                   playVars, duckingTimeout, isDucking, isAiSpeaking,
                   cfgVars, logVars, toolVars,
                   turnVars, handleVars, micPending, mediaStream, pokeVars, reported, holdTimers, duckEntry, micInput>>
    /\ UNCHANGED <<outputMute, strayCaptures, restartTimers>>
    /\ External

\* the pending capture is granted: stream stored, frame timer, screen chain
VideoResolves ==
    /\ videoPending # <<>>
    /\ LET req == Head(videoPending)
       IN  /\ videoStream' = req.type
           /\ IF req.type = "screen" /\ req.isConnected /\ audioContext /\ processor
              THEN screenFadeGain' = GAIN_DEFAULT /\ isScreenAudioShared' = TRUE
              ELSE UNCHANGED <<screenFadeGain, isScreenAudioShared>>
    /\ videoPending' = Tail(videoPending)
    /\ videoInterval' = TRUE
    /\ renderPending' = TRUE
    /\ UNCHANGED <<now, sessVars, ttsVars, audioContext, outputContext, processor, volumeInterval,
                   playVars, duckingTimeout, isDucking, isAiSpeaking,
                   cfgVars, logVars, toolVars,
                   turnVars, handleVars, micPending, mediaStream, pokeVars, reported, holdTimers, duckEntry, micInput>>
    /\ UNCHANGED <<outputMute, restartTimers>>
    /\ strayCaptures' = strayCaptures + (IF videoStream # "none" THEN 1 ELSE 0)
    /\ Internal

\* ---- playback -----------------------------------------------------------
\* onmessage, inline audio part: decode, start at the cursor, count, duck
OnNativeAudio(dur) ==
    /\ session = "open"
    /\ outputContext /\ ~useCartesia
    /\ Len(bufs) < MaxBuffers
    /\ LET start == nativeStart(nextStartTime, now)
       IN  /\ bufs' = Append(bufs, NewBuffer("native", start, dur))
           /\ activeAudioNodes' = trackNode(activeAudioNodes, Len(bufs) + 1)
           /\ nextStartTime' = start + dur
    /\ activeAiSources' = activeAiSources + 1
    /\ resetSinceSched' = FALSE
    /\ SetDuck(updateDucking(Duck, activeAiSources + 1, configRef))
    /\ UNCHANGED <<now, sessVars, ttsVars, graphVars, cfgVars, logVars, toolVars,
                   turnVars, handleVars, acqVars, pokeVars, reported, micInput>>
    /\ UNCHANGED <<outputMute, strayCaptures, restartTimers>>
    /\ Internal

\* decodeAudioData(bytes, ctx): an audio buffer, or a rejection for a payload that
\* cannot be decoded
decodeAudioData(decodable) == IF decodable THEN "buffer" ELSE "rejected"

\* what a message may carry besides its inline audio part
Contents == {"none", "turnComplete", "interrupted"}

\* onmessage, inline audio part that cannot be decoded, followed in the same message by
\* rest: the await at the decode throws, the async handler ends there with a rejection
\* nobody handles, and the branches after the audio branch are not reached
OnUndecodableAudio(rest) ==
    /\ session = "open"
    /\ outputContext /\ ~useCartesia
    /\ rest \in Contents
    /\ decodeAudioData(FALSE) = "rejected"
    /\ reported' = <<UnhandledRejection>>
    /\ UNCHANGED <<holdTimers, duckEntry, micInput>>
    /\ UNCHANGED <<now, sessVars, ttsVars, graphVars, playVars, duckVars, cfgVars, logVars,
                   toolVars, turnVars, handleVars, acqVars, pokeVars>>
    /\ UNCHANGED <<outputMute, strayCaptures, restartTimers>>
    /\ Internal

\* onmessage, text part or output transcription: forwarded to the TTS socket
OnModelText(text) ==
    /\ session = "open"
    /\ Len(modelTranscription) + Len(text) <= MaxText
    /\ modelTranscription' = modelTranscription \o text
    /\ ttsInFlight' = send(cartesiaClient, ttsInFlight)
    /\ UNCHANGED <<now, sessVars, cartesiaClient, ctxCounter, flushTimers, graphVars, playVars,
                   duckVars, cfgVars, logVars, toolVars, userTranscription,
                   handleVars, acqVars, pokeVars, reported, holdTimers, duckEntry, micInput>>
    /\ UNCHANGED <<outputMute, strayCaptures, restartTimers>>
    /\ External

\* onmessage, input transcription: accumulated for the user entry
OnInputTranscript(text) ==
    /\ session = "open"
    /\ Len(userTranscription) + Len(text) <= MaxText
    /\ userTranscription' = userTranscription \o text
    /\ UNCHANGED <<now, sessVars, ttsVars, graphVars, playVars, duckVars, cfgVars, logVars,
                   toolVars, modelTranscription, handleVars, acqVars, pokeVars, reported, holdTimers, duckEntry, micInput>>
    /\ UNCHANGED <<outputMute, strayCaptures, restartTimers>>
    /\ External

\* onmessage, serverContent.turnComplete: the accumulated texts become log entries
OnTurnComplete ==
    /\ session = "open"
    /\ LET model == modelEntry(modelTranscription)
           userText == trim(userTranscription)
           afterModel == IF model.message # <<>> THEN handleLog(logs, model) ELSE logs
       IN  /\ modelTranscription' = IF model.message # <<>> THEN <<>> ELSE modelTranscription
           /\ userTranscription' = IF userText # <<>> THEN <<>> ELSE userTranscription
           /\ logs' = IF userText # <<>>
                      THEN handleLog(afterModel, [type |-> "user", message |-> userText,
                                                  sentiment |-> "undefined"])
                      ELSE afterModel
           /\ appended' = appended + (IF model.message # <<>> THEN 1 ELSE 0)
                                    + (IF userText # <<>> THEN 1 ELSE 0)
           /\ renderPending' = (renderPending \/ model.message # <<>> \/ userText # <<>>)
    /\ UNCHANGED <<now, sessVars, ttsVars, graphVars, playVars, duckingTimeout, isDucking,
                   isAiSpeaking, screenFadeGain, cfgVars, toolVars, handleVars, acqVars, pokeVars, reported, holdTimers, duckEntry, micInput>>
    /\ UNCHANGED <<outputMute, strayCaptures, restartTimers>>
    /\ Internal

\* CartesiaClient.ws.onmessage with an audio frame -> handleCartesiaAudio
OnCartesiaAudio(ctx, dur) ==
    /\ cartesiaClient.present /\ cartesiaClient.ws = "open"
    /\ ctx \in ttsInFlight
    /\ outputContext
    /\ Len(bufs) < MaxBuffers
    /\ LET start == cartesiaStart(nextStartTime, now)
       IN  /\ bufs' = Append(bufs, NewBuffer("cartesia", start, dur))
           /\ nextStartTime' = start + dur
    /\ activeAiSources' = activeAiSources + 1
    /\ resetSinceSched' = FALSE
    /\ SetDuck(updateDucking(Duck, activeAiSources + 1, configRef))
    /\ UNCHANGED <<now, sessVars, ttsVars, graphVars, activeAudioNodes, cfgVars, logVars, toolVars,
                   turnVars, handleVars, acqVars, pokeVars, reported, micInput>>
    /\ UNCHANGED <<outputMute, strayCaptures, restartTimers>>
    /\ Internal

\* source.onended of buffer i (either path)
BufferEnded(i) ==
    /\ i \in DOMAIN bufs
    /\ EndPending(i)
    /\ bufs' = [bufs EXCEPT ![i].ended = TRUE]
    /\ activeAiSources' = decrement(activeAiSources)
    /\ activeAudioNodes' = IF bufs[i].path = "native" THEN activeAudioNodes \ {i} ELSE activeAudioNodes
    /\ SetDuck(updateDucking(Duck, decrement(activeAiSources), configRef))
    /\ UNCHANGED <<now, sessVars, ttsVars, graphVars, nextStartTime, resetSinceSched, cfgVars,
                   logVars, toolVars,
                   turnVars, handleVars, acqVars, pokeVars, reported, micInput>>
    /\ UNCHANGED <<outputMute, strayCaptures, restartTimers>>
    /\ Internal

\* onmessage, serverContent.interrupted
OnInterrupted ==
    /\ session = "open"
    /\ flushArms(cartesiaClient) => ctxCounter < MaxCtx
    /\ bufs' = StopActive(bufs, activeAudioNodes)
    /\ activeAudioNodes' = {}
    /\ activeAiSources' = 0
    /\ nextStartTime' = IF outputContext THEN resetCursor(now) ELSE nextStartTime
    /\ resetSinceSched' = TRUE
    /\ SetDuck(updateDucking(Duck, 0, configRef))
    /\ cartesiaClient' = flush(cartesiaClient)
    /\ IF flushArms(cartesiaClient)
       THEN /\ ctxCounter' = ctxCounter + 1
            /\ flushTimers' = flushTimers \cup {now + FLUSH_COOLDOWN}
       ELSE UNCHANGED <<ctxCounter, flushTimers>>
    /\ modelTranscription' = <<>>
    /\ UNCHANGED <<now, sessVars, ttsInFlight, graphVars, cfgVars, logVars, toolVars,
                   userTranscription, handleVars, acqVars, pokeVars, reported, micInput>>
    /\ UNCHANGED <<outputMute, strayCaptures, restartTimers>>
    /\ Interruption

\* ---- timers, renders, configuration ------------------------------------
\* the 600 ms timer of updateDucking fires: applyDucking(false)
HoldTimerFire ==
    /\ duckingTimeout # NoTimer /\ now >= duckingTimeout
    /\ SetDuck(applyDucking([Duck EXCEPT !.timeout = NoTimer,
                                         !.timers = holdTimers \ {duckingTimeout}],
                            FALSE, configRef))
    /\ UNCHANGED <<now, sessVars, ttsVars, graphVars, playVars, cfgVars, logVars, toolVars,
                   turnVars, handleVars, acqVars, pokeVars, reported, micInput>>
    /\ UNCHANGED <<outputMute, strayCaptures, restartTimers>>
    /\ Internal

\* the 50 ms timer of flush() fires: isFlushing = false
FlushTimerFire(t) ==
    /\ t \in flushTimers /\ now >= t
    /\ flushTimers' = flushTimers \ {t}
    /\ cartesiaClient' = [cartesiaClient EXCEPT !.isFlushing = FALSE]
    /\ UNCHANGED <<now, sessVars, ctxCounter, ttsInFlight, graphVars, playVars, duckVars, cfgVars,
                   logVars, toolVars,
                   turnVars, handleVars, acqVars, pokeVars, reported, holdTimers, duckEntry, micInput>>
    /\ UNCHANGED <<outputMute, strayCaptures, restartTimers>>
    /\ Internal

\* the 100 ms volume monitor: setVolume / setScreenVolume / setAiVolume;
\* changed = one of the measured levels differs from the stored one
VolumeTick(changed) ==
    /\ volumeInterval # NoTimer /\ now >= volumeInterval
    /\ volumeInterval' = volumeInterval + VOLUME_PERIOD
    /\ renderPending' = (renderPending \/ changed)
    /\ UNCHANGED <<now, sessVars, ttsVars, audioContext, outputContext, processor, videoStream,
                   isScreenAudioShared, playVars, duckingTimeout, isDucking,
                   isAiSpeaking, screenFadeGain, cfgVars, logVars, toolVars,
                   turnVars, handleVars, acqVars, pokeVars, reported, holdTimers, duckEntry, micInput>>
    /\ UNCHANGED <<outputMute, strayCaptures, restartTimers>>
    /\ Internal

\* the render without the copy of config into configRef
Render_snapshot ==
    /\ renderPending
    /\ configRef' = configRef
    /\ SetDuck(updateDucking([Duck EXCEPT !.render = FALSE], activeAiSources, configRef))
    \* effects: isAiSpeakingRef follows the state; sendText is a new function as
    \* well, so the commentary effect clears its interval and sets a new one
    /\ isAiSpeakingRef' = isAiSpeaking
    /\ commentaryTimer' = IF autoPoke /\ isConnected /\ videoStream # "none"
                          THEN now + CommentaryPeriod
                          ELSE NoTimer
    /\ UNCHANGED <<now, sessVars, ttsVars, graphVars, playVars, enableDucking, logVars, toolVars,
                   turnVars, handleVars, acqVars, pokes, autoPoke, reported, micInput>>
    /\ UNCHANGED <<outputMute, strayCaptures, restartTimers>>
    /\ Internal

\* a render of App and the hook: handleLog, hence updateDucking, is a new function,
\* so the effect `configRef.current = config; updateDucking()` runs again
Render ==
    /\ renderPending
    /\ configRef' = enableDucking
    /\ SetDuck(updateDucking([Duck EXCEPT !.render = FALSE], activeAiSources, enableDucking))
    \* effects: isAiSpeakingRef follows the state; sendText is a new function as
    \* well, so the commentary effect clears its interval and sets a new one
    /\ isAiSpeakingRef' = isAiSpeaking
    /\ commentaryTimer' = IF autoPoke /\ isConnected /\ videoStream # "none"
                          THEN now + CommentaryPeriod
                          ELSE NoTimer
    /\ UNCHANGED <<now, sessVars, ttsVars, graphVars, playVars, enableDucking, logVars, toolVars,
                   turnVars, handleVars, acqVars, pokes, autoPoke, reported, micInput>>
    /\ UNCHANGED <<outputMute, strayCaptures, restartTimers>>
    /\ Internal

\* the user saves the settings with the ducking flag flipped
SetConfig ==
    /\ enableDucking' = ~enableDucking
    /\ renderPending' = TRUE
    /\ UNCHANGED <<now, sessVars, ttsVars, graphVars, playVars, duckingTimeout,
                   isDucking, isAiSpeaking, screenFadeGain, configRef, logVars, toolVars,
                   turnVars, handleVars, acqVars, pokeVars, reported, holdTimers, duckEntry, micInput>>
    /\ UNCHANGED <<outputMute, strayCaptures, restartTimers>>
    /\ External

\* ---- log feed and tool calls ---------------------------------------------
\* onLog(entry): App.handleLog appends the entry; setLogs schedules a render
onLog ==
    /\ logs' = handleLog(logs, appended + 1)
    /\ appended' = appended + 1
    /\ renderPending' = TRUE

\* sendText(text) reaches a session
sendText == (sessionRef = "latest" /\ session = "open") \/ sessionRef = "orphan"

\* the auto-commentary interval fires: skipped while isAiSpeakingRef is set
CommentaryFire ==
    /\ commentaryTimer # NoTimer /\ now >= commentaryTimer
    /\ commentaryTimer' = commentaryTimer + CommentaryPeriod
    /\ IF ~isAiSpeakingRef /\ sendText
       THEN pokes < MaxPokes /\ pokes' = pokes + 1 /\ onLog
       ELSE UNCHANGED <<pokes, logs, appended, renderPending>>
    /\ UNCHANGED <<now, sessVars, ttsVars, graphVars, playVars, duckingTimeout, isDucking,
                   isAiSpeaking, screenFadeGain, cfgVars, toolVars,
                   turnVars, handleVars, acqVars, isAiSpeakingRef, autoPoke, reported, holdTimers, duckEntry, micInput>>
    /\ UNCHANGED <<outputMute, strayCaptures, restartTimers>>
    /\ Internal

\* any caller of onLog appends one entry
LogAppend ==
    /\ appended < MaxAppends
    /\ onLog
    /\ UNCHANGED <<now, sessVars, ttsVars, graphVars, playVars, duckingTimeout, isDucking,
                   isAiSpeaking, screenFadeGain, cfgVars, toolVars,
                   turnVars, handleVars, acqVars, pokeVars, reported, holdTimers, duckEntry, micInput>>
    /\ UNCHANGED <<outputMute, strayCaptures, restartTimers>>
    /\ Internal

\* onmessage, msg.toolCall: every call is looked up and its executor started
OnToolCall(calls) ==
    /\ session = "open"
    /\ functionCalls = <<>>
    /\ functionCalls' = [i \in DOMAIN calls |->
                            [id |-> i, name |-> calls[i].name, outcome |-> calls[i].outcome]]
    /\ functionResponses' = [i \in DOMAIN calls |->
                            [id |-> i, name |-> calls[i].name,
                             result |-> IF find(calls[i].name) THEN Pending ELSE ErrNotFound]]
    /\ executed' = {i \in DOMAIN calls : find(calls[i].name)}
    /\ responded' = FALSE
    /\ onLog
    \* start_screenshare's executor calls setVideoSource(SCREEN) and awaits it
    /\ IF \E i \in DOMAIN calls : calls[i].name = "start_screenshare"
       THEN stopVideoProcessing
       ELSE UNCHANGED <<videoInterval, videoStream, screenFadeGain, isScreenAudioShared>>
    /\ UNCHANGED <<now, sessVars, ttsVars, audioContext, outputContext, processor, volumeInterval,
                   playVars, duckingTimeout, isDucking,
                   isAiSpeaking, cfgVars, sentBatches,
                   turnVars, handleVars, micPending, mediaStream, videoPending, pokeVars, reported, holdTimers, duckEntry, micInput>>
    /\ UNCHANGED <<outputMute, strayCaptures, restartTimers>>
    /\ Internal

\* the executor of call i settles: its output, or the caught error
ExecutorSettles(i) ==
    /\ i \in DOMAIN functionResponses
    /\ functionResponses[i].result = Pending
    /\ functionCalls[i].name # "start_screenshare"
    /\ functionResponses' = [functionResponses EXCEPT ![i].result = runTool(functionCalls[i])]
    /\ IF runTool(functionCalls[i]) = Output
       THEN onLog
       ELSE UNCHANGED <<logs, appended, renderPending>>
    /\ UNCHANGED <<now, sessVars, ttsVars, graphVars, playVars, duckingTimeout, isDucking,
                   isAiSpeaking, screenFadeGain, cfgVars,
                   functionCalls, executed, responded, sentBatches,
                   turnVars, handleVars, acqVars, pokeVars, reported, holdTimers, duckEntry, micInput>>
    /\ UNCHANGED <<outputMute, strayCaptures, restartTimers>>
    /\ Internal

\* the capture awaited by start_screenshare's executor is granted or refused
ScreenshareSettles(i) ==
    /\ i \in DOMAIN functionResponses
    /\ functionResponses[i].result = Pending
    /\ functionCalls[i].name = "start_screenshare"
    /\ functionResponses' = [functionResponses EXCEPT ![i].result = runTool(functionCalls[i])]
    /\ onLog
    /\ IF runTool(functionCalls[i]) = Output
       THEN /\ videoStream' = "screen"
            /\ videoInterval' = TRUE
            /\ IF isConnected /\ audioContext /\ processor
               THEN screenFadeGain' = GAIN_DEFAULT /\ isScreenAudioShared' = TRUE
               ELSE UNCHANGED <<screenFadeGain, isScreenAudioShared>>
       ELSE UNCHANGED <<videoStream, videoInterval, screenFadeGain, isScreenAudioShared>>
    /\ UNCHANGED <<now, sessVars, ttsVars, audioContext, outputContext, processor, volumeInterval,
                   playVars, duckingTimeout, isDucking, isAiSpeaking, cfgVars,
                   functionCalls, executed, responded, sentBatches,
                   turnVars, handleVars, micPending, mediaStream, videoPending, pokeVars, reported, holdTimers, duckEntry, micInput>>
    /\ UNCHANGED <<outputMute, restartTimers>>
    /\ strayCaptures' = strayCaptures + (IF runTool(functionCalls[i]) = Output /\ videoStream # "none"
                                          THEN 1 ELSE 0)
    /\ Internal

\* a tool-call message is being handled: its response has not been sent
Handling == functionCalls # <<>> /\ ~responded

\* the handler is suspended in an await that only a later task can resolve
Awaiting ==
    /\ Handling
    /\ \A i \in DOMAIN functionResponses :
          functionResponses[i].result = Pending => functionCalls[i].name = "start_screenshare"
    /\ \E i \in DOMAIN functionResponses : functionResponses[i].result = Pending

\* the socket delivers the next message: the handler of the one before has
\* returned or is suspended
Delivered == ~Handling \/ Awaiting

\* variant: the batch leaves out the calls whose tool was not found
SendToolResponse_foundOnly ==
    /\ functionCalls # <<>> /\ ~responded
    /\ \A i \in DOMAIN functionResponses :
          functionResponses[i].result \in {Output, ErrThrown, ErrNotFound}
    /\ sentBatches' = Append(sentBatches,
                             SelectSeq(functionResponses, LAMBDA r : r.result # ErrNotFound))
    /\ responded' = TRUE
    /\ UNCHANGED <<now, sessVars, ttsVars, graphVars, playVars, duckVars, cfgVars, logVars,
                   functionCalls, functionResponses, executed,
                   turnVars, handleVars, acqVars, pokeVars, reported, holdTimers, duckEntry, micInput>>
    /\ UNCHANGED <<outputMute, strayCaptures, restartTimers>>
    /\ Internal

\* Promise.all has resolved: session.sendToolResponse({ functionResponses })
SendToolResponse ==
    /\ functionCalls # <<>> /\ ~responded
    /\ \A i \in DOMAIN functionResponses :
          functionResponses[i].result \in {Output, ErrThrown, ErrNotFound}
    /\ sentBatches' = Append(sentBatches, functionResponses)
    /\ responded' = TRUE
    /\ UNCHANGED <<now, sessVars, ttsVars, graphVars, playVars, duckVars, cfgVars, logVars,
                   functionCalls, functionResponses, executed,
                   turnVars, handleVars, acqVars, pokeVars, reported, holdTimers, duckEntry, micInput>>
    /\ UNCHANGED <<outputMute, strayCaptures, restartTimers>>
    /\ Internal

\* ---- automatic restart (App) ---------------------------------------------
\* the sequence without its element i
Remove(seq, i) == SubSeq(seq, 1, i - 1) \o SubSeq(seq, i + 1, Len(seq))

\* timer i is the next one the event loop runs: due, and none is due before it
NextTimer(i) ==
    /\ i \in DOMAIN restartTimers
    /\ restartTimers[i].at <= now
    /\ \A j \in DOMAIN restartTimers :
          \/ restartTimers[j].at > restartTimers[i].at
          \/ (restartTimers[j].at = restartTimers[i].at /\ j >= i)

\* config.voiceName or config.persona changes: the effect notes the new value and, if
\* connected, arms the 1000 ms timer of the restart
ChangeVoice ==
    /\ restartTimers' = IF isConnected
                        THEN Append(restartTimers, [at |-> now + RESTART_DELAY, kind |-> "disconnect"])
                        ELSE restartTimers
    /\ renderPending' = TRUE
    /\ UNCHANGED <<now, sessVars, ttsVars, graphVars, playVars, duckingTimeout, isDucking,
                   isAiSpeaking, screenFadeGain, cfgVars, logVars, toolVars, turnVars,
                   handleVars, acqVars, pokeVars, reported, holdTimers, duckEntry, micInput>>
    /\ UNCHANGED <<outputMute, strayCaptures>>
    /\ External

\* the 1000 ms timer fires: await disconnect(), then the 500 ms timer is armed
RestartDisconnect(i) ==
    /\ NextTimer(i) /\ restartTimers[i].kind = "disconnect"
    /\ disconnect
    /\ restartTimers' = Append(Remove(restartTimers, i),
                               [at |-> now + RECONNECT_DELAY, kind |-> "connect"])

\* the 500 ms timer fires: connect()
RestartConnect(i) ==
    /\ NextTimer(i) /\ restartTimers[i].kind = "connect"
    /\ connect(FALSE, FALSE, FALSE)
    /\ restartTimers' = Remove(restartTimers, i)

\* something is due at the current instant
Urgent ==
    \/ renderPending
    \/ duckingTimeout # NoTimer /\ duckingTimeout <= now
    \/ volumeInterval # NoTimer /\ volumeInterval <= now
    \/ commentaryTimer # NoTimer /\ commentaryTimer <= now
    \/ \E t \in flushTimers : t <= now
    \/ \E i \in DOMAIN bufs : EndPending(i)
    \/ \E i \in DOMAIN restartTimers : restartTimers[i].at <= now

\* time passes: step units at once, up to the horizon
Tick(step, horizon) ==
    /\ now < horizon
    /\ ~Urgent
    /\ now' = now + step
    /\ UNCHANGED <<sessVars, ttsVars, graphVars, playVars, duckVars, cfgVars, logVars, toolVars,
                   turnVars, handleVars, acqVars, pokeVars, reported, holdTimers, duckEntry, micInput>>
    /\ UNCHANGED <<outputMute, strayCaptures, restartTimers>>
    /\ Internal

\* ---- playback with both strategies, no screen share ---------------------
Next ==
    \/ \E uc \in BOOLEAN, creds \in BOOLEAN, wsOk \in BOOLEAN : ConnectIdle(uc, creds, wsOk)
    \/ \E micOk \in BOOLEAN : OnOpen(micOk)
    \/ Disconnect
    \/ \E dur \in Durations : OnNativeAudio(dur)
    \/ OnModelText(<<"hi">>)
    \/ \E ctx \in 1..MaxCtx, dur \in Durations : OnCartesiaAudio(ctx, dur)
    \/ \E i \in 1..MaxBuffers : BufferEnded(i)
    \/ OnInterrupted
    \/ \E t \in 0..(MaxPlayClock + FLUSH_COOLDOWN) : FlushTimerFire(t)
    \/ VolumeTick(FALSE)
    \/ Render
    \/ Tick(1, MaxPlayClock)

Spec == Init /\ [][Next]_vars

\* ---- ducking with the native strategy and a screen share ----------------
NextDuck ==
    \/ ConnectIdle(FALSE, FALSE, FALSE)
    \/ OnOpen(TRUE)
    \/ Disconnect
    \/ \E type \in {"none", "screen"} : SetVideoSource(type)
    \/ \E dur \in Durations : OnNativeAudio(dur)
    \/ \E i \in 1..MaxBuffers : BufferEnded(i)
    \/ OnInterrupted
    \/ HoldTimerFire
    \/ \E changed \in BOOLEAN : VolumeTick(changed)
    \/ Render
    \/ SetConfig
    \/ Tick(VOLUME_PERIOD, MaxClock)

SpecDuck == Init /\ [][NextDuck]_vars

\* ---- interruption: both strategies and a screen share -------------------
NextInterrupt ==
    \/ Next
    \/ \E type \in {"none", "screen"} : SetVideoSource(type)

SpecInterrupt == Init /\ [][NextInterrupt]_vars

\* ---- the log feed --------------------------------------------------------
NextLog == LogAppend

SpecLog == Init /\ [][NextLog]_vars

\* ---- one tool-call message ----------------------------------------------
NextTools ==
    \/ ConnectIdle(FALSE, FALSE, FALSE)
    \/ OnOpen(TRUE)
    \/ \E calls \in CallSeqs : OnToolCall(calls)
    \/ \E i \in 1..MaxCalls : ExecutorSettles(i)
    \/ SendToolResponse

SpecTools == Init /\ [][NextTools]_vars

\* ---- transcripts of a turn ------------------------------------------------
NextTurn ==
    \/ ConnectIdle(FALSE, FALSE, FALSE)
    \/ OnOpen(TRUE)
    \/ \E text \in Texts : OnModelText(text)
    \/ \E text \in {<<"hi">>, <<" ">>} : OnInputTranscript(text)
    \/ OnTurnComplete
    \/ OnInterrupted

SpecTurn == Init /\ [][NextTurn]_vars

\* ---- messages that arrive while a tool call is awaited -------------------
ScreenCalls ==
    UNION { [1..n -> [name : {"get_time", "start_screenshare"}, outcome : {"returns", "throws"}]] :
            n \in 1..MaxCalls }

NextMessages ==
    \/ ConnectIdle(FALSE, FALSE, FALSE)
    \/ OnOpen(TRUE)
    \/ \E calls \in ScreenCalls : OnToolCall(calls)
    \/ \E i \in 1..MaxCalls : ExecutorSettles(i)
    \/ \E i \in 1..MaxCalls : ScreenshareSettles(i)
    \/ SendToolResponse
    \/ Delivered /\ \E dur \in Durations : OnNativeAudio(dur)
    \/ Delivered /\ OnInputTranscript(<<"hi">>)
    \/ Delivered /\ OnTurnComplete
    \/ \E i \in 1..MaxBuffers : BufferEnded(i)
    \/ Render
    \/ Tick(VOLUME_PERIOD, MaxPlayClock)

SpecMessages == Init /\ [][NextMessages]_vars

\* ---- the TTS client under repeated interruptions -------------------------
NextFlush ==
    \/ \E wsOk \in BOOLEAN : ConnectIdle(TRUE, TRUE, wsOk)
    \/ OnOpen(TRUE)
    \/ OnModelText(<<"hi">>)
    \/ \E ctx \in 1..MaxCtx, dur \in Durations : OnCartesiaAudio(ctx, dur)
    \/ \E i \in 1..MaxBuffers : BufferEnded(i)
    \/ OnInterrupted
    \/ \E t \in 0..(MaxPlayClock + FLUSH_COOLDOWN) : FlushTimerFire(t)
    \/ Render
    \/ Tick(1, MaxPlayClock)

SpecFlush == InitSession /\ [][NextFlush]_vars

\* ---- auto-commentary while a video source is shown ----------------------
NextCommentary ==
    \/ ConnectIdle(FALSE, FALSE, FALSE)
    \/ \E micOk \in BOOLEAN : OnOpen(micOk)
    \/ Disconnect
    \/ \E type \in {"none", "camera", "screen"} : SetVideoSource(type)
    \/ \E dur \in Durations : OnNativeAudio(dur)
    \/ \E i \in 1..MaxBuffers : BufferEnded(i)
    \/ HoldTimerFire
    \/ \E changed \in BOOLEAN : VolumeTick(changed)
    \/ CommentaryFire
    \/ Render
    \/ Tick(VOLUME_PERIOD, MaxClock)

SpecCommentary == InitCommentary /\ [][NextCommentary]_vars

\* ---- reconnects with a changed TTS configuration -------------------------
NextStrategy ==
    \/ \E uc \in BOOLEAN, creds \in BOOLEAN : ConnectIdle(uc, creds, TRUE)
    \/ OnOpen(TRUE)
    \/ ServerClose
    \/ Disconnect
    \/ \E dur \in Durations : OnNativeAudio(dur)
    \/ OnModelText(<<"hi">>)
    \/ \E ctx \in 1..MaxCtx, dur \in Durations : OnCartesiaAudio(ctx, dur)
    \/ \E i \in 1..MaxBuffers : BufferEnded(i)
    \/ Render
    \/ Tick(VOLUME_PERIOD, MaxPlayClock)

SpecStrategy == InitSession /\ [][NextStrategy]_vars

\* ---- connections that fail ------------------------------------------------
NextFailure ==
    \/ ConnectNoKey
    \/ \E uc \in BOOLEAN, wsOk \in BOOLEAN : ConnectIdle(uc, uc, wsOk)
    \/ ConnectFails
    \/ OnOpen(TRUE)
    \/ OnError
    \/ ServerClose
    \/ Disconnect
    \/ \E dur \in Durations : OnNativeAudio(dur)
    \/ OnModelText(<<"hi">>)
    \/ \E i \in 1..MaxBuffers : BufferEnded(i)
    \/ Render
    \/ Tick(VOLUME_PERIOD, MaxPlayClock)

SpecFailure == InitSession /\ [][NextFailure]_vars

\* ---- messages whose audio fragment cannot be decoded ----------------------
NextDecode ==
    \/ ConnectIdle(FALSE, FALSE, FALSE)
    \/ OnOpen(TRUE)
    \/ \E dur \in Durations : OnNativeAudio(dur)
    \/ \E rest \in Contents : OnUndecodableAudio(rest)
    \/ OnInputTranscript(<<"hi">>)
    \/ OnTurnComplete
    \/ OnInterrupted
    \/ \E i \in 1..MaxBuffers : BufferEnded(i)
    \/ Render
    \/ Tick(VOLUME_PERIOD, MaxPlayClock)

SpecDecode == Init /\ [][NextDecode]_vars

\* ---- microphone changes during a session --------------------------------
NextDevice ==
    \/ ConnectIdle(FALSE, FALSE, FALSE)
    \/ OnOpen(TRUE)
    \/ ChangeAudioDevice
    \/ \E ok \in BOOLEAN : DeviceResolves(ok)
    \/ \E type \in {"none", "screen"} : SetVideoSource(type)
    \/ VolumeTick(FALSE)
    \/ Render
    \/ Tick(VOLUME_PERIOD, MaxPlayClock)

SpecDevice == InitSession /\ [][NextDevice]_vars

\* ---- output mute across connects -----------------------------------------
NextMute ==
    \/ ToggleOutputMute
    \/ ConnectIdle(FALSE, FALSE, FALSE) /\ outputMute.captured = "none"
    \/ ConnectAwaitsTts
    \/ \E wsOk \in BOOLEAN : ConnectResumes(wsOk)
    \/ OnOpen(TRUE)
    \/ Disconnect
    \/ \E dur \in Durations : OnNativeAudio(dur)
    \/ \E i \in 1..MaxBuffers : BufferEnded(i)
    \/ Render
    \/ Tick(VOLUME_PERIOD, MaxPlayClock)

SpecMute == InitSession /\ [][NextMute]_vars

\* ---- configuration saved while a session runs ----------------------------
NextConfig ==
    \/ \E uc \in BOOLEAN : ConnectIdle(uc, uc, TRUE)
    \/ OnOpen(TRUE)
    \/ Disconnect
    \/ SetVideoSource("screen")
    \/ \E dur \in Durations : OnNativeAudio(dur)
    \/ \E i \in 1..MaxBuffers : BufferEnded(i)
    \/ SetConfig
    \/ Render
    \/ Tick(VOLUME_PERIOD, MaxPlayClock)

SpecConfig == InitSession /\ [][NextConfig]_vars

\* ---- voice or persona changed while a session runs -----------------------
NextRestart ==
    \* the user connects while no restart is under way
    \/ ConnectIdle(FALSE, FALSE, FALSE) /\ restartTimers = <<>>
    \/ OnOpen(TRUE)
    \/ ChangeVoice
    \/ \E i \in 1..MaxRestartEvents : RestartDisconnect(i)
    \/ \E i \in 1..MaxRestartEvents : RestartConnect(i)
    \/ HoldTimerFire
    \/ VolumeTick(FALSE)
    \/ Render
    \/ Tick(VOLUME_PERIOD, MaxRestartClock)

SpecRestart == InitRestart /\ [][NextRestart]_vars

\* ---- session lifecycle with pending opens and pending captures ----------
NextSession ==
    \/ Connect(FALSE, FALSE, FALSE)
    \/ OnOpenBegin
    \/ OrphanOpen
    \/ \E micOk \in BOOLEAN : MicResolves(micOk)
    \/ ServerClose
    \/ OrphanClose
    \/ Disconnect
    \/ \E type \in {"camera", "screen"} : VideoRequest(type)
    \/ VideoResolves
    \/ VolumeTick(FALSE)
    \/ Render
    \/ Tick(VOLUME_PERIOD, MaxPlayClock)

SpecSession == InitSession /\ [][NextSession]_vars

\* ======================= properties ======================================
\* a buffer is started in this step
Scheduled == Len(bufs') = Len(bufs) + 1

\* the latest buffer started through the given path, 0 if there is none
LastOnPath(bs, path) ==
    LET S == {i \in DOMAIN bs : bs[i].path = path}
    IN  IF S = {} THEN 0 ELSE CHOOSE i \in S : \A j \in S : j <= i

\* nothing is in the active set, the count is 0 and no started buffer is
\* audible or still to play
NothingActive ==
    /\ activeAudioNodes = {}
    /\ activeAiSources = 0
    /\ \A i \in DOMAIN bufs : ~Sounding(bufs[i], now)

\* C1 (as stated): every buffer started through a playback path starts no
\* earlier than the end of the previous buffer of that path and no earlier than
\* the output clock, and afterwards nextStartTime is its start plus its duration.
C1_PlaybackMonotonic ==
    [][Scheduled =>
        LET b == bufs'[Len(bufs')]
            p == LastOnPath(bufs, b.path)
        IN  /\ p > 0 => b.start >= bufs[p].start + bufs[p].dur
            /\ b.start >= now
            /\ nextStartTime' = b.start + b.dur]_vars

\* C1 (amended): a buffer started right after another one, with no interrupted
\* message and no teardown in between, starts no earlier than the end of that
\* buffer; every buffer starts no earlier than the output clock, and afterwards
\* nextStartTime is its start plus its duration.
C1_PlaybackMonotonicBetweenResets ==
    [][Scheduled =>
        LET b == bufs'[Len(bufs')]
        IN  /\ (Len(bufs) > 0 /\ ~resetSinceSched) =>
                    b.start >= bufs[Len(bufs)].start + bufs[Len(bufs)].dur
            /\ b.start >= now
            /\ nextStartTime' = b.start + b.dur]_vars

\* two buffers of one path played back to back
C1_TwoBuffersGapless ==
    /\ Len(bufs) = 2
    /\ bufs[1].path = bufs[2].path
    /\ ~bufs[1].stopped /\ ~resetSinceSched
    /\ bufs[2].start = bufs[1].start + bufs[1].dur
    /\ nextStartTime = bufs[2].start + bufs[2].dur

\* C2: the hold timer runs applyDucking(false) only when the count is 0 and has
\* been 0 for the whole hold; a step that leaves the count above 0 leaves no
\* unduck timer pending.
C2_DuckingHysteresis ==
    [][/\ HoldTimerFire => (activeAiSources = 0 /\ now >= lastNonZero + HOLD_TIME)
       /\ activeAiSources' > 0 => duckingTimeout' = NoTimer]_vars

\* the screen audio was ducked for a buffer and released one hold after its end
C2_ReleasedAfterHold ==
    /\ Len(bufs) >= 1 /\ lastNonZero > 0
    /\ activeAiSources = 0 /\ now >= lastNonZero + HOLD_TIME
    /\ ~isDucking /\ ~isAiSpeaking /\ screenFadeGain = GAIN_NORMAL

\* C3: in the step that starts a buffer and takes the count from 0 to above 0,
\* the pending unduck timer is cancelled, isDucking becomes true and, with
\* ducking enabled and a screen chain attached, the duck gain target becomes 0.05.
C3_DuckingEngagesImmediately ==
    [][(Scheduled /\ activeAiSources = 0 /\ activeAiSources' > 0) =>
        /\ duckingTimeout' = NoTimer
        /\ isDucking'
        /\ (configRef /\ screenFadeGain' # NoNode) => screenFadeGain' = GAIN_DUCKED]_vars

\* C4: a screen chain that was ducked is released once the count has been 0 for
\* one hold: it is never still at the low gain after that.
C4_DuckingDisengages ==
    (screenFadeGain = GAIN_DUCKED /\ activeAiSources = 0) => now <= lastNonZero + HOLD_TIME

\* C5: the count of active sources is never negative.
C5_CountNeverNegative == activeAiSources >= 0

\* a buffer was stopped by an interruption that zeroed the count, and its
\* completion callback has run afterwards
C5_EndedAfterInterrupt ==
    \E i \in DOMAIN bufs :
        bufs[i].stopped /\ bufs[i].ended /\ activeAiSources = 0 /\ session = "open"

\* C6: after an interrupted message no started buffer, of either path, is
\* audible or still to play, the active set is empty, the count is 0 and
\* nextStartTime is the output clock.
C6_InterruptionEffective ==
    [][OnInterrupted =>
        /\ \A i \in DOMAIN bufs' : ~Sounding(bufs'[i], now)
        /\ activeAudioNodes' = {}
        /\ activeAiSources' = 0
        /\ nextStartTime' = now]_vars

\* C7 (as stated): an interrupted message handled while nothing is active
\* changes neither the active set, the count, the ducking state, the pending
\* hold timer, the TTS context id nor the cursor relative to the clock; a second
\* interrupted message in succession changes nothing at all.
C7_InterruptionNoOp ==
    [][OnInterrupted =>
        /\ NothingActive =>
            /\ UNCHANGED <<activeAudioNodes, activeAiSources, isDucking, isAiSpeaking,
                           screenFadeGain, duckingTimeout>>
            /\ cartesiaClient'.contextId = cartesiaClient.contextId
            /\ Max(nextStartTime', now') = Max(nextStartTime, now)
        /\ interruptedRun >= 1 =>
            UNCHANGED <<now, sessVars, ttsVars, graphVars, playVars, duckVars, cfgVars,
                        logVars, toolVars>>]_vars

\* C7 (amended): an interrupted message handled while nothing is active leaves
\* the active set, the count, the ducking flags, the duck gain and the next
\* start position max(nextStartTime, clock) as they were; it re-arms the hold
\* timer for one hold from now and, when the TTS socket is open, rotates the
\* context id.  A second interrupted message in succession changes nothing but
\* the context id.
C7_InterruptionPreserves ==
    [][OnInterrupted =>
        /\ NothingActive =>
            /\ UNCHANGED <<activeAudioNodes, activeAiSources, isDucking, isAiSpeaking,
                           screenFadeGain, bufs>>
            /\ Max(nextStartTime', now') = Max(nextStartTime, now)
            /\ duckingTimeout' = now + HOLD_TIME
            /\ cartesiaClient'.contextId =
                  IF flushArms(cartesiaClient) THEN ctxCounter + 1 ELSE cartesiaClient.contextId
        /\ interruptedRun >= 1 =>
            /\ UNCHANGED <<now, sessVars, flushTimers, ttsInFlight, graphVars, playVars,
                           duckVars, cfgVars, logVars, toolVars, turnVars, handleVars, acqVars, pokeVars>>
            /\ [cartesiaClient' EXCEPT !.contextId = 0] = [cartesiaClient EXCEPT !.contextId = 0]]_vars

\* two interrupted messages were handled in succession with the TTS socket open
C7_InterruptedTwice ==
    /\ interruptedRun = 2
    /\ cartesiaClient.present /\ cartesiaClient.ws = "open"
    /\ NothingActive /\ nextStartTime = now /\ duckingTimeout = now + HOLD_TIME

\* the entries a feed holds after n appends: the latest min(n, 100), in order
Recent(n) == [i \in 1..Min(n, LOG_CAP) |-> (n - Min(n, LOG_CAP)) + i]

\* C8: after every append the feed holds at most 100 entries, namely the
\* latest min(n, 100) appended ones in append order; an append to a full feed
\* drops exactly the oldest entry.
C8_LogCap ==
    [][LogAppend =>
        /\ Len(logs') <= LOG_CAP
        /\ logs' = Recent(appended')
        /\ Len(logs) = LOG_CAP => logs' = Append(Tail(logs), appended')]_vars

\* a full feed has taken further entries and lost its oldest ones
C8_FullLogEvicted ==
    /\ appended > LOG_CAP
    /\ Len(logs) = LOG_CAP
    /\ logs[1] = (appended - LOG_CAP) + 1 /\ logs[LOG_CAP] = appended

\* every call of the message being handled has its result
AllSettled ==
    \A i \in DOMAIN functionResponses :
        functionResponses[i].result \in {Output, ErrThrown, ErrNotFound}

\* C9: each call of a batch gets a response of its own that depends on that
\* call only: the error payload if its executor throws, its output if it
\* returns; once all calls have settled the batch is sent, errors included.
C9_ToolCallIsolation ==
    functionCalls # <<>> =>
        /\ Len(functionResponses) = Len(functionCalls)
        /\ \A i \in DOMAIN functionCalls :
            /\ functionResponses[i].id = functionCalls[i].id
            /\ functionResponses[i].name = functionCalls[i].name
            /\ (functionCalls[i].name \in ToolNames /\ functionCalls[i].outcome = "throws")
                  => functionResponses[i].result \in {Pending, ErrThrown}
            /\ (functionCalls[i].name \in ToolNames /\ functionCalls[i].outcome = "returns")
                  => functionResponses[i].result \in {Pending, Output}
        /\ AllSettled => (responded \/ ENABLED SendToolResponse)
        /\ responded => (AllSettled /\ sentBatches[Len(sentBatches)] = functionResponses)

\* a batch with one thrown error and one output has been sent
C9_ErrorAndSuccessSent ==
    /\ responded
    /\ \E i, j \in DOMAIN functionResponses :
          /\ sentBatches[Len(sentBatches)][i].result = ErrThrown
          /\ sentBatches[Len(sentBatches)][j].result = Output

\* C10: a call whose name is not in the catalog gets the not-found error
\* payload and no executor is run for it; the calls with a catalog name are
\* executed and answered as they would be without it.
C10_UnknownToolErrorPayload ==
    \A i \in DOMAIN functionCalls :
        IF functionCalls[i].name \in ToolNames
        THEN /\ i \in executed
             /\ functionResponses[i].result \in
                  {Pending, IF functionCalls[i].outcome = "throws" THEN ErrThrown ELSE Output}
        ELSE /\ i \notin executed
             /\ functionResponses[i].result = ErrNotFound
             /\ responded => sentBatches[Len(sentBatches)][i].result = ErrNotFound

\* a batch with a not-found error and an executed call's output has been sent
C10_UnknownAndKnownSent ==
    /\ responded
    /\ \E i, j \in DOMAIN functionCalls :
          /\ functionCalls[i].name \notin ToolNames
          /\ sentBatches[Len(sentBatches)][i].result = ErrNotFound
          /\ j \in executed
          /\ sentBatches[Len(sentBatches)][j].result = Output

\* the entries appended to the feed in this step
NewEntries == SubSeq(logs', (Len(logs') - (appended' - appended)) + 1, Len(logs'))

\* C11: at turnComplete, a model text that ends with a known tag is logged
\* with that tag cut off and with the tag's name in lower case as sentiment; a
\* model text without a known tag is logged as it is with sentiment undefined.
C11_SentimentTagExtraction ==
    [][OnTurnComplete =>
        LET text == trim(modelTranscription)
            logged == {i \in DOMAIN NewEntries : NewEntries[i].type = "model"}
        IN  /\ (text # <<>> /\ text[Len(text)] \in KnownTags) =>
                \A i \in logged :
                    /\ NewEntries[i].message = trim(SubSeq(text, 1, Len(text) - 1))
                    /\ NewEntries[i].sentiment = toLowerCase(text[Len(text)])
            /\ (text # <<>> /\ \A k \in DOMAIN text : text[k] \notin KnownTags) =>
                /\ logged # {}
                /\ \A i \in logged :
                    NewEntries[i].message = text /\ NewEntries[i].sentiment = "undefined"]_vars

\* remote sessions that are open at the same time
OpenSessions == (IF session = "open" THEN 1 ELSE 0) + orphanOpen

\* C12: at no time is more than one remote session open, whatever the order
\* of connect(), disconnect(), open and close events.
C12_OneLiveSession == OpenSessions <= 1


\* the state disconnect() leaves behind
Torn ==
    /\ sessionRef = "null" /\ ~sessionPromiseRef
    /\ cartesiaClient = NoClient
    /\ ~processor /\ screenFadeGain = NoNode /\ activeAudioNodes = {}
    /\ volumeInterval = NoTimer /\ ~videoInterval
    /\ ~mediaStream /\ videoStream = "none"
    /\ ~isConnected /\ ~isScreenAudioShared
    /\ activeAiSources = 0 /\ nextStartTime = 0 /\ ~isAiSpeaking /\ ~isDucking

\* C13: disconnect() leaves no session handle, no session promise, no TTS
\* client, no audio or video nodes, no streams, the connected flag false and
\* the video source none; called in that state it changes nothing of the
\* session state, and it can be called in every state.
C13_DisconnectIdempotent ==
    [][Disconnect =>
        /\ Torn'
        /\ Torn =>
            /\ UNCHANGED <<isConnected, useCartesia, ttsVars, graphVars, handleVars, acqVars,
                           nextStartTime, bufs, activeAudioNodes, activeAiSources,
                           duckingTimeout, isDucking, isAiSpeaking, screenFadeGain>>
            /\ OpenSessions' = OpenSessions
            /\ (session' = "connecting") = (session = "connecting")]_vars

\* disconnect() was called twice in succession and the session that connect()
\* had set up is closed
C13_DisconnectedTwice ==
    /\ disconnectedRun = 2 /\ Torn
    /\ audioContext /\ session = "none" /\ orphanPending = 0 /\ orphanOpen = 0


\* the handling of a message starts in this step
MessageStarts ==
    \/ \E dur \in Durations : OnNativeAudio(dur)
    \/ \E text \in Texts : OnInputTranscript(text)
    \/ OnTurnComplete
    \/ \E calls \in ScreenCalls : OnToolCall(calls)

\* C14: the handling of a message starts only when the handling of every
\* earlier message, its awaited tool executions included, has completed.
C14_MessagesOneAtATime == [][MessageStarts => ~Handling]_vars


\* an audio frame of a context other than the client's current one is delivered
StaleFrame ==
    \E ctx \in 1..MaxCtx, dur \in Durations :
        OnCartesiaAudio(ctx, dur) /\ ctx # cartesiaClient.contextId

\* C15: an audio frame that arrives for a context cancelled by flush() is
\* not scheduled and does not change the count of active sources.
C15_CancelledFrameInert == [][StaleFrame => UNCHANGED <<bufs, nextStartTime, activeAiSources>>]_vars


\* send(text) puts the text on the socket in this step
Transmits ==
    /\ \E text \in Texts : OnModelText(text)
    /\ cartesiaClient.present /\ cartesiaClient.ws = "open" /\ ~cartesiaClient.isFlushing

\* C16: a send() transmits only when the cooldown of every earlier flush()
\* has elapsed, and then under the context id chosen by the last flush().
C16_CancelCooldown ==
    [][Transmits =>
        /\ \A t \in flushTimers : t <= now
        /\ ttsInFlight' = ttsInFlight \cup {cartesiaClient.contextId}
        /\ cartesiaClient.contextId = ctxCounter]_vars


\* C17: whenever the count of active sources is above 0, the AI-speaking
\* flag is true, with or without a screen-audio chain.
C17_SpeakingWhileActive == activeAiSources > 0 => isAiSpeaking


\* C18: an [AUTO-POKE] text is sent only when the session is connected, a
\* camera or screen source is shown and no speech buffer is active.
C18_PokeOnlyWhenIdle ==
    [][pokes' = pokes + 1 =>
        /\ isConnected
        /\ videoStream \in {"camera", "screen"}
        /\ activeAiSources = 0]_vars


\* the callback of one of the session's timers runs in this step
TimerCallback ==
    \/ HoldTimerFire
    \/ CommentaryFire
    \/ \E changed \in BOOLEAN : VolumeTick(changed)

\* C19: disconnect() of a connected session leaves no ducking, commentary,
\* volume or frame timer pending, and none of their callbacks runs between a disconnect() and the
\* next connect().
C19_NoTimerAfterDisconnect ==
    [][/\ (Disconnect /\ isConnected) =>
            /\ duckingTimeout' = NoTimer /\ commentaryTimer' = NoTimer
            /\ volumeInterval' = NoTimer /\ ~videoInterval'
       /\ tornDown => ~TimerCallback]_vars


\* C20: between a disconnect() and the next connect(), whatever session or
\* microphone promise resolves, no session handle is stored, no audio chain is
\* built, no microphone stream is retained, no volume timer runs and the
\* connected flag is false.
C20_LateResolutionsIgnored ==
    tornDown =>
        /\ sessionRef = "null"
        /\ ~processor /\ ~mediaStream
        /\ volumeInterval = NoTimer
        /\ ~isConnected


\* C21: after a turnComplete message the model transcript and the user
\* transcript are both empty, whatever was accumulated during the turn.
C21_TurnCompleteClears ==
    [][OnTurnComplete => (modelTranscription' = <<>> /\ userTranscription' = <<>>)]_vars

\* C22: after an interrupted message the partial model transcript and the
\* partial user transcript are both empty.
C22_InterruptedClears ==
    [][OnInterrupted => (modelTranscription' = <<>> /\ userTranscription' = <<>>)]_vars


\* C23: model text reaches a TTS socket only in a session that connect()
\* started with the third-party strategy, so a session that schedules native
\* audio never feeds a TTS client, its own or one of an earlier session.
C23_OneStrategyPerSession == [][Transmits => useCartesia]_vars


\* onopen stores a microphone stream and builds a microphone chain in this step
BuildsMicChain == audioContext /\ (OnOpen(TRUE) \/ MicResolves(TRUE))

\* C24: a microphone chain is built only when no earlier chain is connected
\* and no earlier stream is held, so no reference to a connected node or a
\* live track is overwritten.
C24_OneInputChain == [][BuildsMicChain => (~processor /\ ~mediaStream)]_vars


\* two native fragments of 0.5 s were scheduled with the output clock at 0 and
\* have not been stopped
TwoFragmentsAtZero ==
    /\ now = 0 /\ Len(bufs) = 2
    /\ \A i \in DOMAIN bufs :
          bufs[i].path = "native" /\ bufs[i].dur = 10 /\ ~bufs[i].stopped

\* C25: two native fragments of 0.5 s scheduled at clock 0 on a fresh cursor
\* start at the lookahead and 0.5 s after that; an interrupted message then
\* stops both, empties the active set, puts the cursor at the clock and the
\* count at 0.
C25_TwoFragmentsThenInterrupt ==
    [][TwoFragmentsAtZero =>
        /\ bufs[1].start = LOOKAHEAD
        /\ bufs[2].start = bufs[1].start + 10
        /\ OnInterrupted =>
            /\ \A i \in DOMAIN bufs : bufs'[i].stopped
            /\ activeAudioNodes' = {}
            /\ nextStartTime' = now
            /\ activeAiSources' = 0]_vars

\* C26: connect() without the remote-service API key changes nothing: no audio
\* context, no TTS client or socket, no remote session or handle, no transcript reset,
\* and the connected flag keeps its value (false stays false)
C26_NoKeyAborts ==
    [][ConnectNoKey =>
        UNCHANGED <<audioContext, outputContext, cartesiaClient, ctxCounter, ttsInFlight,
                    session, sessionRef, sessionPromiseRef, orphanPending, orphanOpen,
                    modelTranscription, userTranscription, isConnected, useCartesia>>]_vars

\* connect() was called without the key before any connect() that had one
C26_NoKeyAlerted ==
    /\ reported = <<AlertNoKey>>
    /\ ~audioContext /\ ~outputContext /\ session = "none" /\ ~isConnected
    /\ ~cartesiaClient.present /\ ~sessionPromiseRef

\* the session was configured for the third-party TTS and the client's socket failed to open
TtsSocketFailed == useCartesia /\ cartesiaClient.present /\ cartesiaClient.ws = "failed"

\* C27: when the TTS socket cannot be established connect() logs a system entry and
\* still requests the remote session; while that session is open no text reaches the
\* socket and no native audio fragment is scheduled
C27_TtsFailureTolerated ==
    [][/\ ConnectIdle(TRUE, TRUE, FALSE) =>
            /\ \E i \in DOMAIN reported' : reported'[i] = CartesiaFailed
            /\ session' = "connecting" /\ sessionPromiseRef'
       /\ (TtsSocketFailed /\ session = "open") =>
            /\ ttsInFlight' \subseteq ttsInFlight
            /\ ~(\E dur \in Durations : OnNativeAudio(dur))
            /\ (OnModelText(<<"hi">>) => bufs' = bufs)]_vars

\* such a session is connected and has handled a text of the model: nothing was sent or played
C27_ConnectedWithoutSpeech ==
    /\ TtsSocketFailed /\ session = "open" /\ isConnected
    /\ modelTranscription # <<>>
    /\ ttsInFlight = {} /\ bufs = <<>>

\* C28: a connection-fatal failure of the remote session (failure to open, a runtime
\* error event, a close event) reports a system entry and leaves the connected flag false
C28_FatalFailureDisconnects ==
    [][(ConnectFails \/ OnError \/ ServerClose) =>
        /\ reported' \in {<<ConnectionFailed>>, <<SessionError>>, <<SessionClosed>>}
        /\ ~isConnected']_vars

\* C29: a decode failure of one inline audio fragment is isolated: the fragment is not
\* scheduled and the count is unchanged, no rejection escapes the message handler, the
\* rest of that message (turnComplete, interrupted) is processed, and the session stays open
C29_DecodeFailureIsolated ==
    [][\A rest \in Contents : OnUndecodableAudio(rest) =>
        /\ bufs' = bufs
        /\ rest # "interrupted" => activeAiSources' = activeAiSources
        /\ session' = "open" /\ isConnected' = isConnected
        /\ reported' # <<UnhandledRejection>>
        /\ (rest = "turnComplete" /\ trim(userTranscription) # <<>>) =>
                (userTranscription' = <<>> /\ appended' > appended)
        /\ (rest = "interrupted" /\ activeAiSources > 0) =>
                (activeAiSources' = 0 /\ nextStartTime' = now)]_vars

\* the ducking flag is off, in the settings and in the ref the controller reads
DuckingDisabled == ~enableDucking /\ ~configRef

\* C30: with the ducking flag disabled a speaking transition leaves the screen duck-gain
\* as it was (also the 0.5 default of a freshly attached chain), while the AI-speaking
\* flag follows the transition
C30_DisabledDuckingKeepsGain ==
    [][(DuckingDisabled /\ screenFadeGain # NoNode) =>
        /\ (\E dur \in Durations : OnNativeAudio(dur)) =>
                (screenFadeGain' = screenFadeGain /\ isAiSpeaking')
        /\ HoldTimerFire =>
                (screenFadeGain' = screenFadeGain /\ ~isAiSpeaking')]_vars

\* C31: at most one ducking hold timer is outstanding, and it is the one the ref holds
C31_OneHoldTimer ==
    /\ Cardinality(holdTimers) <= 1
    /\ holdTimers \subseteq {duckingTimeout}

\* a buffer ended and armed a timer, and an interruption came before that timer was due:
\* the timer of the interruption is the only one outstanding
C31_TimerRearmed ==
    /\ Len(bufs) = 1 /\ bufs[1].ended
    /\ now > 0 /\ now < bufs[1].start + bufs[1].dur + HOLD_TIME
    /\ interruptedRun = 1
    /\ holdTimers = {now + HOLD_TIME}

\* a step that calls updateDucking, or the callback of its hold timer
DuckCall ==
    \/ \E dur \in Durations : OnNativeAudio(dur)
    \/ \E i \in 1..MaxBuffers : BufferEnded(i)
    \/ OnInterrupted
    \/ HoldTimerFire
    \/ Render

\* C32: a ducking log entry is emitted only when isDucking flips, only while a
\* screen-audio chain is attached and only when ducking is enabled (as the controller
\* reads it); an engage call while already ducked emits nothing
C32_DuckingLogOnlyOnChange ==
    [][(DuckCall /\ duckEntry' # NoEntry) =>
        /\ isDucking' # isDucking
        /\ screenFadeGain # NoNode /\ isScreenAudioShared
        /\ configRef'
        /\ duckEntry' = IF isDucking' THEN DuckingActive ELSE DuckingInactive]_vars

\* ducking was engaged and released with a chain attached: both entries were emitted,
\* the second when the hold timer fired
C32_ReleaseLogged ==
    /\ duckEntry = DuckingInactive /\ ~isDucking
    /\ screenFadeGain = GAIN_NORMAL /\ activeAiSources = 0 /\ Len(bufs) >= 1

\* C33: changeAudioDevice leaves processor, screen chain, session handle and connected
\* flag as they are; once no acquisition is pending exactly one live microphone source
\* feeds the mute-gain, and a failed acquisition is reported
C33_DeviceChangeKeepsChain ==
    [][(ChangeAudioDevice \/ \E ok \in BOOLEAN : DeviceResolves(ok)) =>
        /\ UNCHANGED <<processor, volumeInterval, screenFadeGain, isScreenAudioShared,
                       videoStream, session, sessionRef, isConnected>>
        /\ DeviceResolves(FALSE) => reported' = <<MicSwitchError>>
        /\ (micInput'.pending = 0 /\ processor) =>
                (micInput'.sources = 1 /\ mediaStream')]_vars

\* C38: whenever the output gain node exists and speech can be scheduled, the output
\* gain is 0 exactly when the output-muted flag is set
C38_MuteConsistent ==
    (outputMute.gain # NoNode /\ session = "open") =>
        (outputMute.gain = GAIN_MUTED <=> outputMute.muted)

\* C34: toggleOutputMute changes only the muted flag and the output gain (0 when muted,
\* 1 when unmuted): scheduled buffers, active count, cursor and ducking state are
\* unchanged, and a second toggle restores the gain the first one found
C34_ToggleOnlySilences ==
    [][ToggleOutputMute =>
        /\ UNCHANGED <<bufs, activeAudioNodes, activeAiSources, nextStartTime,
                       isDucking, isAiSpeaking, duckingTimeout, screenFadeGain>>
        /\ outputMute'.muted = ~outputMute.muted
        /\ outputMute.gain # NoNode => outputMute'.gain = gainFor(outputMute'.muted)
        /\ toggleOutputMute(outputMute').gain = outputMute.gain]_vars

\* C35: at most one capture stream has live tracks, every acquired stream is the
\* current one or has been stopped, and the frame timer and the screen-audio chain
\* belong to the current stream
C35_OneCaptureStream ==
    /\ strayCaptures = 0
    /\ videoInterval => videoStream # "none"
    /\ screenFadeGain # NoNode => videoStream = "screen"

LiveBuffers == {i \in DOMAIN bufs : ~bufs[i].stopped /\ ~bufs[i].ended}

\* C37: ActiveSourceCount equals the number of speech buffers scheduled since the last
\* interruption or teardown that have not yet ended
C37_CountIsLiveBuffers == activeAiSources = Cardinality(LiveBuffers)

\* C39: a tool-call message gets exactly one response batch, sent once every call has
\* settled, with exactly one response per requested call, in the order of the calls,
\* each echoing the id and the name of its call
C39_OneBatchPerToolCall ==
    /\ Len(sentBatches) = (IF responded THEN 1 ELSE 0)
    /\ \A b \in DOMAIN sentBatches :
          /\ DOMAIN sentBatches[b] = DOMAIN functionCalls
          /\ \A i \in DOMAIN functionCalls :
                /\ sentBatches[b][i].id = functionCalls[i].id
                /\ sentBatches[b][i].name = functionCalls[i].name
                /\ sentBatches[b][i].result # Pending

\* the batch for a message with two calls of different tools has been sent
C39_TwoCallBatchSent ==
    /\ responded /\ Len(functionCalls) = 2
    /\ functionCalls[1].name # functionCalls[2].name
    /\ sentBatches = <<functionResponses>>

\* C40: a voice or persona change arms a restart exactly when connected, and every
\* connect() issued by a restart follows a disconnect() made since the previous connect()
C40_RestartDisconnectsFirst ==
    [][/\ ChangeVoice => (restartTimers' # restartTimers <=> isConnected)
       /\ (\E i \in DOMAIN restartTimers : RestartConnect(i)) => tornDown]_vars

====
